---- MODULE Spec2Model ----
(***************************************************************************)
(* Topic allocation, validation, publishing with fallback and the ledger   *)
(* of the fortunass auto publisher.                                        *)
(*                                                                         *)
(* One pipeline run is active at a time against the ledger.  The content   *)
(* oracle and the CMS are the environment: every call to them either       *)
(* returns or raises, chosen nondeterministically.  A POST to the CMS has  *)
(* three outcomes: "ok" (post created, response read), "rejected" (no post *)
(* created, RequestException) and "lost" (post created by the CMS but the  *)
(* client sees a timeout or an unreadable response).  The ledger store     *)
(* itself is reliable in Spec and SpecCli (reads and writes return).       *)
(***************************************************************************)
EXTENDS Integers, Sequences, FiniteSets, TLC

(***************************************************************************)
(* Bounds of the model.                                                    *)
(***************************************************************************)
\* number of CMS responses that may be lost over a behaviour
MaxLost == 1
\* number of command-line runs performed one after another
MaxCliRuns == 2
\* rows per table in the specification of the ledger object
MaxRows == 2

(***************************************************************************)
(* src/data/topic_data.py: the topic space, cut to the first entry of each *)
(* list: a small synthetic space of 1 x 1 x 3 keys, which three recording   *)
(* runs exhaust.                                                           *)
(***************************************************************************)
CARD_TYPES == {"tarot", "numerology", "oracle"}

MBTI_TYPES == {"INTJ"}

LOVE_SITUATIONS == {"relationship anxiety"}

TAROT_MAJOR_ARCANA == {"The Fool"}

NUMEROLOGY_NUMBERS == {"1"}

ORACLE_CARDS == {"New Beginnings"}

\* the list random.choice draws the card from, by card type
CardChoices(card_type) ==
    IF card_type = "tarot" THEN TAROT_MAJOR_ARCANA
    ELSE IF card_type = "numerology" THEN NUMEROLOGY_NUMBERS
    ELSE ORACLE_CARDS

\* a loop bound that is one short
max_attempts_short == 100 - 1

\* TopicGenerator.max_attempts
max_attempts == 100

\* a retry policy that allows one more attempt
stop_after_attempt_4 == 3 + 1

\* stop_after_attempt(3) of the tenacity decorators
STOP_AFTER_ATTEMPT == 3

\* minimum body length of both validators
MIN_LENGTH == 1000

\* minimum number of second-level headings of both validators
MIN_H2 == 3

\* SQL NULL for post_id / post_url, and the absent topic
NULL == 0

NoTopic == [mbti |-> "", love_situation |-> "", card_type |-> "", card_name |-> ""]

(***************************************************************************)
(* Content.  A body is what the validators can observe of it: the set of   *)
(* forbidden terms occurring in it (one occurrence each), whether the      *)
(* disclaimer phrase of ContentValidator occurs, whether all the disclaimer *)
(* keywords of SEOValidator occur, the number of second-level heading      *)
(* lines and its length in characters.  A title is the set of forbidden    *)
(* terms in it.                                                            *)
(***************************************************************************)
FORBIDDEN_WORDS == {"definitely", "100%"}

\* len(term), by forbidden term
TermLen(w) == IF w = "definitely" THEN 10 ELSE 4

\* len(replacement) of the substitution table, by forbidden term:
\* "definitely" -> "likely", "100%" -> "highly"
ReplacementLen(w) == 6

RECURSIVE SumOver(_, _)
SumOver(S, f) ==
    IF S = {} THEN 0
    ELSE LET x == CHOOSE y \in S : TRUE IN f[x] + SumOver(S \ {x}, f)

\* ContentValidator.sanitize_content: every forbidden term of the table is
\* replaced by its paraphrase; the title is not touched
sanitize_content(content) ==
    [content EXCEPT
        !.forbidden = {},
        !.len = content.len
                + SumOver(content.forbidden,
                          [w \in FORBIDDEN_WORDS |-> ReplacementLen(w) - TermLen(w)])]

\* ContentValidator._check_forbidden_words on title + " " + content
check_forbidden_words(title, content) == title.forbidden \cup content.forbidden

\* ContentValidator.validate: the ordered list of issues
validate_issues(title, content) ==
    (IF check_forbidden_words(title, content) # {} THEN <<"forbidden words">> ELSE <<>>)
    \o (IF ~content.disclaimer THEN <<"disclaimer">> ELSE <<>>)
    \o (IF content.h2 < MIN_H2 THEN <<"headings">> ELSE <<>>)
    \o (IF content.len < MIN_LENGTH THEN <<"too short">> ELSE <<>>)

validate(title, content) == Len(validate_issues(title, content)) = 0

\* SEOValidator.validate: the ordered list of issues; the disclaimer rule asks
\* for all of the disclaimer keywords
seo_validate_issues(title, content) ==
    (IF check_forbidden_words(title, content) # {} THEN <<"forbidden words">> ELSE <<>>)
    \o (IF ~content.keywords THEN <<"disclaimer">> ELSE <<>>)
    \o (IF content.h2 < MIN_H2 THEN <<"headings">> ELSE <<>>)
    \o (IF content.len < MIN_LENGTH THEN <<"too short">> ELSE <<>>)

seo_validate(title, content) == Len(seo_validate_issues(title, content)) = 0

CleanTitle == [forbidden |-> {}]

BadTitle == [forbidden |-> {"definitely"}]

\* the drafts the content oracle may return
Drafts ==
    { [title |-> CleanTitle,
       content |-> [forbidden |-> {}, disclaimer |-> TRUE, keywords |-> TRUE, h2 |-> 4,
                    len |-> 1400]],
      [title |-> CleanTitle,
       content |-> [forbidden |-> {"100%"}, disclaimer |-> TRUE, keywords |-> TRUE,
                    h2 |-> 4, len |-> 1400]],
      [title |-> CleanTitle,
       content |-> [forbidden |-> {}, disclaimer |-> TRUE, keywords |-> FALSE, h2 |-> 4,
                    len |-> 500]],
      [title |-> CleanTitle,
       content |-> [forbidden |-> {"definitely"}, disclaimer |-> TRUE, keywords |-> TRUE,
                    h2 |-> 3, len |-> 1002]],
      [title |-> BadTitle,
       content |-> [forbidden |-> {}, disclaimer |-> TRUE, keywords |-> TRUE, h2 |-> 4,
                    len |-> 1400]] }

NoDraft == [title |-> CleanTitle,
            content |-> [forbidden |-> {}, disclaimer |-> FALSE, keywords |-> FALSE,
                         h2 |-> 0, len |-> 0]]

Statuses == {"draft", "publish", "future"}

\* a result dict; a key the dict does not hold reads as NULL (dict.get)
NoResult == [success |-> FALSE, post_id |-> NULL, link |-> NULL, url |-> NULL,
             status |-> "", error |-> ""]

(***************************************************************************)
(* The text of a body, character by character.  A character is a string:   *)
(* an ASCII character stands for itself, any other is named by its code    *)
(* point ("U+D655").  A text is a sequence of characters.                  *)
(***************************************************************************)
ascii_uppercase ==
    <<"A", "B", "C", "D", "E", "F", "G", "H", "I", "J", "K", "L", "M",
      "N", "O", "P", "Q", "R", "S", "T", "U", "V", "W", "X", "Y", "Z">>

ascii_lowercase ==
    <<"a", "b", "c", "d", "e", "f", "g", "h", "i", "j", "k", "l", "m",
      "n", "o", "p", "q", "r", "s", "t", "u", "v", "w", "x", "y", "z">>

\* the lowercase letter of each uppercase ASCII letter
ascii_lower ==
    [c \in {ascii_uppercase[i] : i \in 1..Len(ascii_uppercase)} |->
        ascii_lowercase[CHOOSE i \in 1..Len(ascii_uppercase) : ascii_uppercase[i] = c]]

\* str.lower() of one character: the capital I with dot above (U+0130) becomes
\* "i" and a combining dot, the Kelvin sign (U+212A) becomes "k"; the long s
\* (U+017F) and the dotless i (U+0131) are lowercase already
lower(c) ==
    IF c \in DOMAIN ascii_lower THEN <<ascii_lower[c]>>
    ELSE IF c = "U+0130" THEN <<"i", "U+0307">>
    ELSE IF c = "U+212A" THEN <<"k">>
    ELSE <<c>>

\* str.lower()
RECURSIVE text_lower(_)
text_lower(text) ==
    IF text = <<>> THEN <<>> ELSE lower(Head(text)) \o text_lower(Tail(text))

\* word in text
Occurs(word, text) ==
    \E i \in 1..(Len(text) - Len(word) + 1) : SubSeq(text, i, i + Len(word) - 1) = word

\* FORBIDDEN_WORDS of src/data/topic_data.py, entire and in list order
forbidden_words ==
    << <<"d", "e", "f", "i", "n", "i", "t", "e", "l", "y">>,
       <<"g", "u", "a", "r", "a", "n", "t", "e", "e", "d">>,
       <<"1", "0", "0", "%">>,
       <<"m", "u", "s", "t", " ", "h", "a", "p", "p", "e", "n">>,
       <<"w", "i", "l", "l", " ", "h", "a", "p", "p", "e", "n">>,
       <<"c", "e", "r", "t", "a", "i", "n">>,
       <<"U+D655", "U+C2E4", "U+D788">>,
       <<"U+BC18", "U+B4DC", "U+C2DC">>,
       <<"U+D2C0", "U+B9BC", "U+C5C6", "U+C774">>,
       <<"U+BCF4", "U+C7A5">>,
       <<"U+BB34", "U+C870", "U+AC74">>,
       <<"1", "0", "0", "%">> >>

\* ContentValidator._check_forbidden_words: the terms found, in list order
check_forbidden_words_in(text) ==
    SelectSeq(forbidden_words, LAMBDA word : Occurs(text_lower(word), text_lower(text)))

\* a table whose paraphrase of "certain" is a term substituted before it
replacements_certain_guaranteed ==
    << <<<<"d", "e", "f", "i", "n", "i", "t", "e", "l", "y">>,
          <<"l", "i", "k", "e", "l", "y">>>>,
       <<<<"g", "u", "a", "r", "a", "n", "t", "e", "e", "d">>,
          <<"p", "o", "s", "s", "i", "b", "l", "e">>>>,
       <<<<"1", "0", "0", "%">>,
          <<"h", "i", "g", "h", "l", "y">>>>,
       <<<<"m", "u", "s", "t", " ", "h", "a", "p", "p", "e", "n">>,
          <<"m", "a", "y", " ", "h", "a", "p", "p", "e", "n">>>>,
       <<<<"w", "i", "l", "l", " ", "h", "a", "p", "p", "e", "n">>,
          <<"m", "i", "g", "h", "t", " ", "h", "a", "p", "p", "e", "n">>>>,
       <<<<"c", "e", "r", "t", "a", "i", "n">>,
          <<"g", "u", "a", "r", "a", "n", "t", "e", "e", "d">>>>,
       <<<<"U+D655", "U+C2E4", "U+D788">>,
          <<"U+C544", "U+B9C8", "U+B3C4">>>>,
       <<<<"U+BC18", "U+B4DC", "U+C2DC">>,
          <<"U+AC00", "U+B2A5", "U+D558", "U+BA74">>>>,
       <<<<"U+D2C0", "U+B9BC", "U+C5C6", "U+C774">>,
          <<"U+ADF8", "U+B7F4", " ", "U+C218", " ", "U+C788", "U+C2B5", "U+B2C8", "U+B2E4">>>>,
       <<<<"U+BCF4", "U+C7A5">>,
          <<"U+AC00", "U+B2A5", "U+C131">>>>,
       <<<<"U+BB34", "U+C870", "U+AC74">>,
          <<"U+ACBD", "U+C6B0", "U+C5D0", " ", "U+B530", "U+B77C">>>> >>

\* the substitution table of sanitize_content, in the order of the dict
replacements ==
    << <<<<"d", "e", "f", "i", "n", "i", "t", "e", "l", "y">>,
          <<"l", "i", "k", "e", "l", "y">>>>,
       <<<<"g", "u", "a", "r", "a", "n", "t", "e", "e", "d">>,
          <<"p", "o", "s", "s", "i", "b", "l", "e">>>>,
       <<<<"1", "0", "0", "%">>,
          <<"h", "i", "g", "h", "l", "y">>>>,
       <<<<"m", "u", "s", "t", " ", "h", "a", "p", "p", "e", "n">>,
          <<"m", "a", "y", " ", "h", "a", "p", "p", "e", "n">>>>,
       <<<<"w", "i", "l", "l", " ", "h", "a", "p", "p", "e", "n">>,
          <<"m", "i", "g", "h", "t", " ", "h", "a", "p", "p", "e", "n">>>>,
       <<<<"c", "e", "r", "t", "a", "i", "n">>,
          <<"p", "r", "o", "b", "a", "b", "l", "e">>>>,
       <<<<"U+D655", "U+C2E4", "U+D788">>,
          <<"U+C544", "U+B9C8", "U+B3C4">>>>,
       <<<<"U+BC18", "U+B4DC", "U+C2DC">>,
          <<"U+AC00", "U+B2A5", "U+D558", "U+BA74">>>>,
       <<<<"U+D2C0", "U+B9BC", "U+C5C6", "U+C774">>,
          <<"U+ADF8", "U+B7F4", " ", "U+C218", " ", "U+C788", "U+C2B5", "U+B2C8", "U+B2E4">>>>,
       <<<<"U+BCF4", "U+C7A5">>,
          <<"U+AC00", "U+B2A5", "U+C131">>>>,
       <<<<"U+BB34", "U+C870", "U+AC74">>,
          <<"U+ACBD", "U+C6B0", "U+C5D0", " ", "U+B530", "U+B77C">>>> >>

\* re.IGNORECASE: the character c of the text matches the literal p of a term
\* when they have the same lowercase or are case variants of each other
\* (long s and "s", dotted capital I or dotless i and "i", Kelvin sign and "k")
ignorecase_match(c, p) ==
    \/ lower(c) = lower(p)
    \/ p = "s" /\ c = "U+017F"
    \/ p = "i" /\ c \in {"U+0130", "U+0131"}
    \/ p = "k" /\ c = "U+212A"

\* the compiled pattern matches at the start of text
MatchesAtStart(forbidden, text) ==
    /\ Len(forbidden) <= Len(text)
    /\ \A k \in 1..Len(forbidden) : ignorecase_match(text[k], forbidden[k])

\* pattern.search(text)
ignorecase_search(forbidden, text) ==
    \E i \in 1..Len(text) : MatchesAtStart(forbidden, SubSeq(text, i, Len(text)))

\* pattern.sub(replacement, text): the matches from left to right, not
\* overlapping
RECURSIVE sub(_, _, _)
sub(forbidden, replacement, text) ==
    IF Len(text) < Len(forbidden) THEN text
    ELSE IF MatchesAtStart(forbidden, text)
    THEN replacement \o sub(forbidden, replacement,
                            SubSeq(text, Len(forbidden) + 1, Len(text)))
    ELSE <<Head(text)>> \o sub(forbidden, replacement, Tail(text))

\* the loop of sanitize_content from entry k of the table on
RECURSIVE sanitize_from(_, _)
sanitize_from(k, text) ==
    IF k > Len(replacements) THEN text
    ELSE sanitize_from(k + 1, sub(replacements[k][1], replacements[k][2], text))

\* ContentValidator.sanitize_content on a text
sanitize_text(text) == sanitize_from(1, text)

(***************************************************************************)
(* A body is a text followed by the rest of the body: lines that hold the  *)
(* headings and the disclaimer, in which no term occurs and no pattern     *)
(* matches; it starts with a line break, which no term holds.  Of the rest *)
(* the validator observes its length (rest_len),                           *)
(* whether the disclaimer phrase occurs and the number of second-level     *)
(* heading lines.                                                          *)
(***************************************************************************)
\* len(content)
body_len(body) == Len(body.text) + body.rest_len

\* sanitize_content on a body: the rest has no match and stays as it is
sanitize_body(body) == [body EXCEPT !.text = sanitize_text(body.text)]

\* a validate that looks for forbidden terms in the body only
validate_body_issues_body_only(title, body) ==
    (IF check_forbidden_words_in(body.text) # <<>>
     THEN <<"forbidden words">> ELSE <<>>)
    \o (IF ~body.disclaimer THEN <<"disclaimer">> ELSE <<>>)
    \o (IF body.h2 < MIN_H2 THEN <<"headings">> ELSE <<>>)
    \o (IF body_len(body) < MIN_LENGTH THEN <<"too short">> ELSE <<>>)

\* ContentValidator.validate on a title and a body: the ordered list of issues
validate_body_issues(title, body) ==
    (IF check_forbidden_words_in(title \o <<" ">> \o body.text) # <<>>
     THEN <<"forbidden words">> ELSE <<>>)
    \o (IF ~body.disclaimer THEN <<"disclaimer">> ELSE <<>>)
    \o (IF body.h2 < MIN_H2 THEN <<"headings">> ELSE <<>>)
    \o (IF body_len(body) < MIN_LENGTH THEN <<"too short">> ELSE <<>>)

validate_body(title, body) == validate_body_issues(title, body) = <<>>

VARIABLES
    published_topics,   \* the ledger table: the sequence of rows, in id order
    publish_status,     \* ContentPublisher.publish_status
    configured_status,  \* the publish_status given to the constructor
    auto_sanitize,      \* ContentPublisher.auto_sanitize
    pc,                 \* position of the active run
    draws,              \* draws of used combinations made by generate_unique_topic
    topic,              \* the allocated topic
    oracle_calls,       \* calls of the content oracle in this run
    draft,              \* title and content of the run
    is_valid,           \* is_valid as the run last computed it
    validator_calls,    \* run(): the calls of validator methods made by this run, in order
    tier,               \* "preferred" or "fallback" publish_post call
    attempt,            \* attempts made by the current publish_post call
    requests,           \* statuses of the post requests sent in this run
    result,             \* the dict publish_with_fallback returned
    last_error,         \* the exception publish_with_fallback last caught or will catch
    cms_posts,          \* number of posts on the CMS (the last id it assigned)
    run_posts,          \* posts the CMS created during this run
    lost,               \* responses lost so far
    ledger_len0,        \* number of ledger rows when the run started
    returned,           \* what the run returned: "none", "True"/"False", "0"/"1"
    pipeline,           \* "orchestrator", "main" (main.py) or "src_main" (src/main.py)
    env_status,         \* WORDPRESS_STATUS / PUBLISH_STATUS: "unset" or a status
    scheduled,          \* main.py: should_schedule() returned True (a date is sent)
    cli_status,         \* the status main() passes to publish_post
    image_calls,        \* calls of the image oracle in this run
    cli_runs,           \* command-line runs started so far
    categories,         \* run(): the category ids passed to publish_with_fallback
    tags,               \* run(): the tag ids passed to publish_with_fallback
    taxonomy_calls,     \* calls of _get_categories and _get_tags in this run
    weekly_fortunes,    \* the weekly fortune table: the sequence of rows, in id order
    race_runs,          \* interleaved runs: position, topic, draws and outcome of each
    arg,                \* the arguments of a validator call on its own
    ret,                \* what that call returned
    weekly              \* weekly_main: the clock, the run and its position in the loop

vars == <<published_topics, publish_status, configured_status, auto_sanitize, pc,
          draws, topic, oracle_calls, draft, is_valid, validator_calls, tier, attempt, requests, result,
          last_error, cms_posts, run_posts, lost, ledger_len0, returned,
          pipeline, env_status, scheduled, cli_status, image_calls, cli_runs,
          categories, tags, taxonomy_calls, weekly_fortunes, race_runs, arg, ret,
          weekly>>

\* the ContentPublisher instance
config_vars == <<configured_status, auto_sanitize>>

\* step 4 of run(): the taxonomy terms of the post
tax_vars == <<categories, tags, taxonomy_calls>>

\* a call of a validator method outside a pipeline
call_vars == <<arg, ret>>

\* the state of the command-line pipelines
cli_vars == <<pipeline, env_status, scheduled, cli_status, image_calls, cli_runs>>

(***************************************************************************)
(* src/utils/database.py                                                   *)
(***************************************************************************)
\* a count whose WHERE clause leaves out the card
CountTopicAnyCard(table, mbti, love_situation, tarot_card) ==
    Cardinality({i \in 1..Len(table) :
        /\ table[i].mbti = mbti
        /\ table[i].love_situation = love_situation})

\* SELECT COUNT(*) ... WHERE mbti = ? AND love_situation = ? AND tarot_card = ?
CountTopic(table, mbti, love_situation, tarot_card) ==
    Cardinality({i \in 1..Len(table) :
        /\ table[i].mbti = mbti
        /\ table[i].love_situation = love_situation
        /\ table[i].tarot_card = tarot_card})

\* a membership test that overlooks the rows of failed attempts
is_topic_used_success_only(table, mbti, love_situation, tarot_card) ==
    \E i \in 1..Len(table) :
        /\ table[i].mbti = mbti
        /\ table[i].love_situation = love_situation
        /\ table[i].tarot_card = tarot_card
        /\ table[i].status # "failed"

is_topic_used(table, mbti, love_situation, tarot_card) ==
    CountTopic(table, mbti, love_situation, tarot_card) > 0

\* an INSERT OR REPLACE keyed by the combination: the earlier rows of the key go
save_published_topic_replace(table, t, post_id, post_url, status, error_message) ==
    Append(SelectSeq(table, LAMBDA r : ~(/\ r.mbti = t.mbti
                                        /\ r.love_situation = t.love_situation
                                        /\ r.tarot_card = t.card_name)),
           [mbti |-> t.mbti, love_situation |-> t.love_situation,
            tarot_card |-> t.card_name, post_id |-> post_id,
            post_url |-> post_url, status |-> status,
            error_message |-> error_message])

\* INSERT INTO published_topics: one row appended, no row changed
save_published_topic(table, t, post_id, post_url, status, error_message) ==
    Append(table, [mbti |-> t.mbti, love_situation |-> t.love_situation,
                   tarot_card |-> t.card_name, post_id |-> post_id,
                   post_url |-> post_url, status |-> status,
                   error_message |-> error_message])

\* a membership test that never finds an entry
is_weekly_fortune_published_never(table, mbti, week_start) == FALSE

\* SELECT COUNT(*) FROM weekly_fortunes WHERE mbti = ? AND week_start = ?
is_weekly_fortune_published(table, mbti, week_start) ==
    Cardinality({i \in 1..Len(table) :
        table[i].mbti = mbti /\ table[i].week_start = week_start}) > 0

\* a save that writes nothing
save_weekly_fortune_dropped(table, mbti, week_start, week_end, post_id, post_url, status, error_message) == table

\* INSERT INTO weekly_fortunes: one row appended, no row changed
save_weekly_fortune(table, mbti, week_start, week_end, post_id, post_url, status, error_message) ==
    Append(table, [mbti |-> mbti, week_start |-> week_start, week_end |-> week_end,
                   post_id |-> post_id, post_url |-> post_url, status |-> status,
                   error_message |-> error_message])

\* SELECT status, COUNT(*) FROM published_topics GROUP BY status, as a dict:
\* its keys are the statuses that occur in the table
by_status_of(table) ==
    [s \in {table[i].status : i \in 1..Len(table)} |->
        Cardinality({i \in 1..Len(table) : table[i].status = s})]

\* dict.get(key, default)
get(dict, key, default) == IF key \in DOMAIN dict THEN dict[key] ELSE default

\* round(num / den * 100, 2), in hundredths of a percent; a tie goes to the
\* even neighbour
round2_percent(num, den) ==
    LET x == num * 100 * 100
        q == x \div den
        r == x % den
    IN  IF 2 * r > den THEN q + 1
        ELSE IF 2 * r = den THEN q + (q % 2)
        ELSE q

\* success_count of get_stats: the rows of status publish and of status draft
success_count(by_status) == get(by_status, "publish", 0) + get(by_status, "draft", 0)

\* TopicDatabase.get_stats; success_rate is in hundredths of a percent
get_stats(table) ==
    LET total == Len(table)
        by_status == by_status_of(table)
    IN  [total_published |-> total,
         by_status |-> by_status,
         success_rate |-> IF total > 0
                          THEN round2_percent(success_count(by_status), total)
                          ELSE 0]

\* TopicGenerator.calculate_remaining_combinations: the size of the tarot part
\* of the topic space less the number of ledger rows
calculate_remaining_combinations(table) ==
    LET total_possible == Cardinality(MBTI_TYPES) * Cardinality(LOVE_SITUATIONS)
                            * Cardinality(TAROT_MAJOR_ARCANA)
        used == get_stats(table).total_published
    IN  total_possible - used

\* the pipeline runs that are interleaved against one ledger
Runs == {"A", "B"}

\* an interleaved run before it starts
NoRaceRun == [pc |-> "idle", topic |-> NoTopic, draws |-> 0, status |-> "",
              post_id |-> NULL]

NoRaceRuns == [r \in Runs |-> NoRaceRun]

\* weekly_main has not run: the clock is at day 0, a Monday
NoWeekly ==
    [pc |-> "idle", today |-> 0, week_start |-> 0, week_end |-> 0, idx |-> 0, runs |-> 0,
     generated |-> {}, requested |-> {}, len0 |-> 0, posts0 |-> 0, returned |-> "none",
     env_status |-> "unset", status |-> "", post_id |-> NULL]

\* no validator call on its own is under way
NoCall == <<>>

NoCalls == arg = NoCall /\ ret = NoCall

(***************************************************************************)
(* ContentPublisher.__init__ and the state before the first run.           *)
(***************************************************************************)
InitRun ==
    /\ published_topics = <<>>
    /\ pc = "idle"
    /\ draws = 0
    /\ topic = NoTopic
    /\ oracle_calls = 0
    /\ draft = NoDraft
    /\ is_valid = FALSE
    /\ validator_calls = <<>>
    /\ tier = "preferred"
    /\ attempt = 0
    /\ requests = <<>>
    /\ result = NoResult
    /\ last_error = ""
    /\ cms_posts = 0
    /\ run_posts = 0
    /\ lost = 0
    /\ ledger_len0 = 0
    /\ returned = "none"
    /\ env_status = "unset"
    /\ scheduled = FALSE
    /\ cli_status = ""
    /\ image_calls = 0
    /\ cli_runs = 0
    /\ categories = <<>>
    /\ tags = <<>>
    /\ taxonomy_calls = 0
    /\ weekly_fortunes = <<>>
    /\ race_runs = NoRaceRuns
    /\ weekly = NoWeekly

Init ==
    /\ InitRun
    /\ NoCalls
    /\ pipeline = "orchestrator"
    /\ configured_status \in Statuses
    /\ publish_status = configured_status
    /\ auto_sanitize \in BOOLEAN

\* a pipeline is entered: the per-run state is fresh
EnterRun ==
    /\ pc \in {"idle", "done"}
    /\ pc' = "allocate"
    /\ draws' = 0
    /\ topic' = NoTopic
    /\ oracle_calls' = 0
    /\ draft' = NoDraft
    /\ is_valid' = FALSE
    /\ validator_calls' = <<>>
    /\ tier' = "preferred"
    /\ attempt' = 0
    /\ requests' = <<>>
    /\ result' = NoResult
    /\ last_error' = ""
    /\ run_posts' = 0
    /\ ledger_len0' = Len(published_topics)
    /\ returned' = "none"
    /\ image_calls' = 0
    /\ cli_status' = ""
    /\ scheduled' = FALSE
    /\ categories' = <<>>
    /\ tags' = <<>>
    /\ taxonomy_calls' = 0
    /\ UNCHANGED <<published_topics, cms_posts, lost, weekly_fortunes, race_runs, call_vars, weekly>>

\* ContentPublisher.run() is entered
StartRun ==
    /\ pipeline = "orchestrator"
    /\ EnterRun
    /\ UNCHANGED <<publish_status, config_vars, pipeline, env_status, cli_runs>>

\* an except clause that records the aborted topic as a failed attempt
AbortLedgerRecordsFailure(table, t) ==
    save_published_topic(table, t, NULL, NULL, "failed", "aborted")

\* the ledger after the except clause of the pipeline: nothing is saved
AbortLedger(table, t) == table

\* an exception that leaves the pipeline instead of being turned into a result
RunRaises ==
    /\ pc' = "done"
    /\ returned' = "raised"

\* the except clause of the pipeline: log and return False (run) or 1 (main)
RunFails ==
    /\ pc' = "done"
    /\ returned' = IF pipeline = "orchestrator" THEN "False" ELSE "1"

\* the draws random.choice can make: every combination of the topic space
DrawSpace ==
    UNION {{[mbti |-> m, love_situation |-> l, card_type |-> ct, card_name |-> cn] :
              m \in MBTI_TYPES, l \in LOVE_SITUATIONS, cn \in CardChoices(ct)} :
           ct \in CARD_TYPES}

\* a draw that prunes the rows of failed attempts from the ledger
LedgerAfterDrawPruned(table, d) == SelectSeq(table, LAMBDA r : r.status # "failed")

\* an allocation that reserves the drawn topic with a row of its own
LedgerAfterDrawReserved(table, d) ==
    save_published_topic(table, d, NULL, NULL, "reserved", NULL)

\* the ledger after generate_unique_topic returned d: the call only reads
LedgerAfterDraw(table, d) == table

\* One iteration of the loop of generate_unique_topic: draw a combination and
\* check the ledger; an unused combination is returned, the max_attempts-th
\* draw of a used one ends the loop and RuntimeError is raised, which the
\* except clause of the pipeline turns into a failed run.
Draw ==
    /\ pc = "allocate"
    /\ draws < max_attempts
    /\ \E d \in DrawSpace :
          IF ~is_topic_used(published_topics, d.mbti, d.love_situation, d.card_name)
          THEN /\ topic' = d
               /\ draws' = 0      \* the loop counter is local to the call
               /\ pc' = "generate"
               /\ returned' = returned
          ELSE /\ topic' = topic
               /\ draws' = draws + 1
               /\ IF draws + 1 = max_attempts
                  THEN RunFails
                  ELSE pc' = pc /\ returned' = returned
    /\ published_topics' = IF pc' = "done"
                           THEN AbortLedger(published_topics, topic')
                           ELSE IF pc' = "generate"
                           THEN LedgerAfterDraw(published_topics, topic')
                           ELSE published_topics
    /\ UNCHANGED <<publish_status, oracle_calls, draft, is_valid, validator_calls,
                   tier, attempt, requests, result, last_error, cms_posts, run_posts, lost,
                   ledger_len0, config_vars, cli_vars, tax_vars, weekly_fortunes, race_runs, call_vars, weekly>>

\* One attempt of generate_content: the oracle returns a draft, or the call
\* raises; the third failure ends the retries and run() returns False.
OracleCall ==
    /\ pc = "generate"
    /\ oracle_calls < STOP_AFTER_ATTEMPT
    /\ oracle_calls' = oracle_calls + 1
    /\ \/ \E d \in Drafts :
            /\ draft' = d
            /\ pc' = (IF pipeline = "main" THEN "image" ELSE "validate")
            /\ returned' = returned
       \/ /\ draft' = draft
          /\ IF oracle_calls + 1 = STOP_AFTER_ATTEMPT
             THEN RunFails
             ELSE pc' = pc /\ returned' = returned
    /\ published_topics' = IF pc' = "done"
                           THEN AbortLedger(published_topics, topic)
                           ELSE published_topics
    /\ UNCHANGED <<publish_status, draws, topic, is_valid, validator_calls,
                   tier, attempt, requests, result, last_error, cms_posts, run_posts, lost,
                   ledger_len0, config_vars, cli_vars, tax_vars, weekly_fortunes, race_runs, call_vars, weekly>>

\* a step 3 that sanitizes and validates again as long as the content is invalid
\* (here: twice)
ValidatorCallsRepeated(d, sanitize) ==
    IF validate(d.title, d.content) THEN <<"validate">>
    ELSE IF ~sanitize THEN <<"validate">>
    ELSE IF validate(d.title, sanitize_content(d.content))
    THEN <<"validate", "sanitize_content", "validate">>
    ELSE <<"validate", "sanitize_content", "validate", "sanitize_content", "validate">>

\* the calls of validator methods step 3 of run() makes, in order: validate;
\* after a failed validate with auto_sanitize on, sanitize_content and validate
ValidatorCalls(d, sanitize) ==
    IF validate(d.title, d.content) THEN <<"validate">>
    ELSE IF sanitize THEN <<"validate", "sanitize_content", "validate">>
    ELSE <<"validate">>

\* a step 3 that never sanitizes
ContentKept(d, sanitize) == d.content

\* the content after step 3 of run(): sanitized iff the first validate failed
\* and auto_sanitize is on
ContentAfterValidation(d, sanitize) ==
    IF ~validate(d.title, d.content) /\ sanitize
    THEN sanitize_content(d.content)
    ELSE d.content

\* a validation step that logs the issues and keeps the status
StatusKept(status, valid) == status

\* the publish status after step 3 of run(): draft when the content is still
\* invalid
StatusAfterValidation(status, valid) ==
    IF valid THEN status ELSE "draft"

\* Step 3 of run(): validate, sanitize once, validate again, downgrade.
Validate ==
    /\ pc = "validate"
    /\ pipeline = "orchestrator"
    /\ LET content == ContentAfterValidation(draft, auto_sanitize)
           valid == validate(draft.title, content)
       IN /\ draft' = [draft EXCEPT !.content = content]
          /\ is_valid' = valid
          /\ publish_status' = StatusAfterValidation(publish_status, valid)
    /\ validator_calls' = ValidatorCalls(draft, auto_sanitize)
    /\ pc' = "taxonomy"
    /\ tier' = "preferred"
    /\ attempt' = 0
    /\ UNCHANGED <<published_topics, draws, topic, oracle_calls, requests, result,
                   last_error, cms_posts, run_posts, lost, ledger_len0, returned,
                   config_vars, cli_vars, tax_vars, weekly_fortunes, race_runs, call_vars, weekly>>

\* the terms _get_categories looks up, in order: the MBTI category and the
\* two general categories; an id is modelled by the name of its term
CategoryTerms == <<"MBTI type", "tarot reading", "love psychology">>

\* the terms _get_tags looks up, in order
TagTerms == <<"mbti", "card", "card korean", "love keyword">>

\* a helper that aborts the run when a lookup raised
TaxonomyAborts(terms, n) == IF n = Len(terms) THEN "publish" ELSE "done"

\* where run() goes after step 4 when n lookups returned: on to the publish
\* step, every exception of a lookup being caught inside the helper
AfterTaxonomy(terms, n) == "publish"

\* _get_categories / _get_tags when the first n lookups returned and the next
\* one (if any) raised: the ids of all the terms, or [] after an exception
TermIds(terms, n) == IF n = Len(terms) THEN terms ELSE <<>>

\* Step 4 of run(): _get_categories, then _get_tags.
Taxonomy ==
    /\ pc = "taxonomy"
    /\ pipeline = "orchestrator"
    /\ taxonomy_calls' = taxonomy_calls + 2
    /\ \E c \in 0..Len(CategoryTerms), g \in 0..Len(TagTerms) :
          /\ categories' = TermIds(CategoryTerms, c)
          /\ tags' = TermIds(TagTerms, g)
          /\ pc' = IF AfterTaxonomy(CategoryTerms, c) = "publish"
                   THEN AfterTaxonomy(TagTerms, g)
                   ELSE "done"
    /\ returned' = IF pc' = "done" THEN "False" ELSE returned
    /\ UNCHANGED <<published_topics, publish_status, draws, topic, oracle_calls, draft,
                   is_valid, validator_calls, tier, attempt, requests, result, last_error, cms_posts,
                   run_posts, lost, ledger_len0, config_vars, cli_vars, weekly_fortunes, race_runs, call_vars, weekly>>

\* a fallback that asks for the preferred status again
RequestStatusNoDraft(t, preferred_status) == preferred_status

\* the status of the request of the current publish_post call
RequestStatus(t, preferred_status) ==
    IF t = "preferred" THEN preferred_status ELSE "draft"

\* One attempt of publish_post (wordpress_publisher.py) inside
\* publish_with_fallback: a POST whose outcome the CMS and the network choose.
PostRequest ==
    /\ pc = "publish"
    /\ pipeline = "orchestrator"
    /\ attempt < STOP_AFTER_ATTEMPT
    /\ LET status == RequestStatus(tier, publish_status) IN
       /\ requests' = Append(requests, status)
       /\ \/ \* 2xx and a readable response
             /\ cms_posts' = cms_posts + 1
             /\ run_posts' = run_posts + 1
             /\ result' = [NoResult EXCEPT !.success = TRUE, !.post_id = cms_posts',
                                           !.link = cms_posts', !.status = status]
             /\ pc' = "record"
             /\ UNCHANGED <<tier, attempt, last_error, lost>>
          \/ \* the request fails; the CMS may have created the post
             /\ \E outcome \in {"rejected", "lost"} :
                  /\ IF outcome = "lost"
                     THEN /\ lost < MaxLost
                          /\ lost' = lost + 1
                          /\ cms_posts' = cms_posts + 1
                          /\ run_posts' = run_posts + 1
                          /\ last_error' = "timeout"
                     ELSE /\ UNCHANGED <<lost, cms_posts, run_posts>>
                          /\ last_error' = "http error"
                  /\ IF attempt + 1 < STOP_AFTER_ATTEMPT
                     THEN /\ attempt' = attempt + 1
                          /\ UNCHANGED <<tier, result, pc>>
                     ELSE IF tier = "preferred"
                     THEN \* except Exception: fall back to draft
                          /\ tier' = "fallback"
                          /\ attempt' = 0
                          /\ UNCHANGED <<result, pc>>
                     ELSE \* except Exception as fallback_error
                          /\ result' = [NoResult EXCEPT !.error = last_error']
                          /\ pc' = "record"
                          /\ UNCHANGED <<tier, attempt>>
    /\ UNCHANGED <<published_topics, publish_status, draws, topic, oracle_calls,
                   draft, is_valid, validator_calls, ledger_len0, returned, config_vars, cli_vars, tax_vars, weekly_fortunes, race_runs, call_vars, weekly>>

\* a step 6 that records successful publishes only
RecordedRowOnSuccess(table, t, res) ==
    IF res.success
    THEN save_published_topic(table, t, res.post_id, res.link, res.status, NULL)
    ELSE table

\* a step 6 that writes the row of a successful publish twice
RecordedRowTwice(table, t, res) ==
    IF res.success
    THEN save_published_topic(
             save_published_topic(table, t, res.post_id, res.link, res.status, NULL),
             t, res.post_id, res.link, res.status, NULL)
    ELSE save_published_topic(table, t, NULL, NULL, "failed", res.error)

\* the row step 6 of run() writes for the result of publish_with_fallback
RecordedRow(table, t, res) ==
    IF res.success
    THEN save_published_topic(table, t, res.post_id, res.link, res.status, NULL)
    ELSE save_published_topic(table, t, NULL, NULL, "failed", res.error)

\* Step 6 of run(): write the ledger row and return.
Record ==
    /\ pc = "record"
    /\ pipeline = "orchestrator"
    /\ published_topics' = RecordedRow(published_topics, topic, result)
    /\ returned' = IF result.success THEN "True" ELSE "False"
    /\ pc' = "done"
    /\ categories' = <<>>     \* the lists are local to run()
    /\ tags' = <<>>
    /\ UNCHANGED <<publish_status, draws, topic, oracle_calls, draft, is_valid, validator_calls, tier,
                   attempt, requests, result, last_error, cms_posts, run_posts, lost,
                   ledger_len0, taxonomy_calls, config_vars, cli_vars, weekly_fortunes, race_runs, call_vars, weekly>>

(***************************************************************************)
(* The command-line pipelines: main() of main.py and main() of             *)
(* src/main.py, with SEOValidator and the publisher of                     *)
(* src/publishers/wordpress.py.                                            *)
(***************************************************************************)
\* os.getenv(name, default)
getenv(value, default) == IF value = "unset" THEN default ELSE value

\* the hours datetime.now().hour takes
Hours == 0..23

\* main() of main.py is entered, with WORDPRESS_STATUS as the operator set it
StartMain ==
    /\ pipeline \in {"none", "main", "src_main"}
    /\ cli_runs < MaxCliRuns
    /\ cli_runs' = cli_runs + 1
    /\ pipeline' = "main"
    /\ env_status' \in Statuses \cup {"unset"}
    /\ EnterRun
    /\ UNCHANGED <<publish_status, config_vars>>

\* main() of src/main.py is entered, with PUBLISH_STATUS as the operator set it
StartSrcMain ==
    /\ pipeline \in {"none", "main", "src_main"}
    /\ cli_runs < MaxCliRuns
    /\ cli_runs' = cli_runs + 1
    /\ pipeline' = "src_main"
    /\ env_status' \in Statuses \cup {"unset"}
    /\ EnterRun
    /\ UNCHANGED <<publish_status, config_vars>>

\* One attempt of generate_image (main.py only): the image oracle returns the
\* image, or the call raises; the third failure ends the retries and main()
\* returns 1.
ImageCall ==
    /\ pc = "image"
    /\ image_calls < STOP_AFTER_ATTEMPT
    /\ image_calls' = image_calls + 1
    /\ \/ pc' = "validate" /\ returned' = returned
       \/ IF image_calls + 1 = STOP_AFTER_ATTEMPT
          THEN RunFails
          ELSE pc' = pc /\ returned' = returned
    /\ published_topics' = IF pc' = "done"
                           THEN AbortLedger(published_topics, topic)
                           ELSE published_topics
    /\ UNCHANGED <<publish_status, draws, topic, oracle_calls, draft,
                   is_valid, validator_calls, tier, attempt, requests, result, last_error, cms_posts,
                   run_posts, lost, ledger_len0, config_vars, pipeline, env_status,
                   scheduled, cli_status, cli_runs, tax_vars, weekly_fortunes, race_runs, call_vars, weekly>>

\* the content after the validation step of main(): sanitized iff the first
\* validate failed (SEOValidator.sanitize_content applies the same table)
CliContentAfterValidation(d) ==
    IF ~seo_validate(d.title, d.content) THEN sanitize_content(d.content) ELSE d.content

\* is_valid after the validation step: main.py validates the sanitized
\* content again, src/main.py keeps the result of the first validate
CliIsValid(p, d) ==
    IF p = "main"
    THEN seo_validate(d.title, CliContentAfterValidation(d))
    ELSE seo_validate(d.title, d.content)

\* The validation step of main(): validate, sanitize once.
CliValidate ==
    /\ pc = "validate"
    /\ pipeline \in {"main", "src_main"}
    /\ draft' = [draft EXCEPT !.content = CliContentAfterValidation(draft)]
    /\ is_valid' = CliIsValid(pipeline, draft)
    /\ pc' = "status"
    /\ UNCHANGED <<published_topics, validator_calls, publish_status, draws, topic, oracle_calls, tier,
                   attempt, requests, result, last_error, cms_posts, run_posts, lost,
                   ledger_len0, returned, config_vars, cli_vars, tax_vars, weekly_fortunes, race_runs, call_vars, weekly>>

\* a window test that also holds at the closing hour of each window
should_schedule_closed(h) ==
    ~((9 <= h /\ h <= 11) \/ (13 <= h /\ h <= 15) \/ (17 <= h /\ h <= 19))

\* schedule.should_schedule at hour h
should_schedule(h) ==
    ~((9 <= h /\ h < 11) \/ (13 <= h /\ h < 15) \/ (17 <= h /\ h < 19))

\* the status main() of main.py passes to publish_post
MainStatus(h, env) ==
    IF should_schedule(h) THEN "future" ELSE getenv(env, "publish")

\* the status main() of src/main.py passes to publish_post
SrcMainStatus(env) == getenv(env, "draft")

\* main() chooses the status of the post.
CliStatus ==
    /\ pc = "status"
    /\ \/ /\ pipeline = "main"
          /\ \E h \in Hours :
               /\ scheduled' = should_schedule(h)
               /\ cli_status' = MainStatus(h, env_status)
       \/ /\ pipeline = "src_main"
          /\ scheduled' = scheduled
          /\ cli_status' = SrcMainStatus(env_status)
    /\ pc' = "publish"
    /\ tier' = "preferred"
    /\ attempt' = 0
    /\ UNCHANGED <<published_topics, publish_status, draws, topic, oracle_calls, draft,
                   is_valid, validator_calls, requests, result, last_error, cms_posts, run_posts, lost,
                   ledger_len0, returned, config_vars, pipeline, env_status, image_calls,
                   cli_runs, tax_vars, weekly_fortunes, race_runs, call_vars, weekly>>

\* an attempt of publish_post (wordpress.py) raised: tenacity calls it again,
\* and raises RetryError after the third attempt, which ends main() with 1
CliAttemptFails ==
    IF attempt + 1 < STOP_AFTER_ATTEMPT
    THEN /\ attempt' = attempt + 1
         /\ tier' = "preferred"
         /\ UNCHANGED <<pc, returned>>
    ELSE /\ RunFails
         /\ UNCHANGED <<attempt, tier>>

\* One POST of publish_post (wordpress.py).  Inside one attempt the request at
\* the given status comes first; when it raises RequestException and the
\* status is not draft, the except clause sends the same post as a draft.
\* "timeout" is a RequestException after the CMS created the post,
\* "unreadable" a response whose fields cannot be read (no RequestException).
CliPostRequest ==
    /\ pc = "publish"
    /\ pipeline \in {"main", "src_main"}
    /\ attempt < STOP_AFTER_ATTEMPT
    /\ LET status == RequestStatus(tier, cli_status) IN
       /\ requests' = Append(requests, status)
       /\ \/ \* 2xx and a readable response
             /\ cms_posts' = cms_posts + 1
             /\ run_posts' = run_posts + 1
             /\ result' = [NoResult EXCEPT !.success = TRUE, !.post_id = cms_posts',
                                           !.url = cms_posts', !.status = status]
             /\ pc' = "record"
             /\ UNCHANGED <<tier, attempt, last_error, lost, returned>>
          \/ \E outcome \in {"rejected", "timeout", "unreadable"} :
               /\ IF outcome = "rejected"
                  THEN UNCHANGED <<lost, cms_posts, run_posts>>
                  ELSE /\ lost < MaxLost
                       /\ lost' = lost + 1
                       /\ cms_posts' = cms_posts + 1
                       /\ run_posts' = run_posts + 1
               /\ UNCHANGED <<last_error, result>>
               /\ IF outcome # "unreadable" /\ tier = "preferred" /\ status # "draft"
                  THEN \* except RequestException: retry as draft
                       /\ tier' = "fallback"
                       /\ UNCHANGED <<attempt, pc, returned>>
                  ELSE CliAttemptFails
    /\ published_topics' = IF pc' = "done"
                           THEN AbortLedger(published_topics, topic)
                           ELSE published_topics
    /\ UNCHANGED <<publish_status, draws, topic, oracle_calls, draft,
                   is_valid, validator_calls, ledger_len0, config_vars, cli_vars, tax_vars, weekly_fortunes, race_runs, call_vars, weekly>>

\* the row main() writes for the result of publish_post: main.py reads the
\* keys post_id, url, status; src/main.py reads post_id, link, status
CliRecordedRow(table, p, t, res) ==
    IF p = "main"
    THEN save_published_topic(table, t, res.post_id, res.url, res.status, NULL)
    ELSE save_published_topic(table, t, res.post_id, res.link, res.status, NULL)

\* The last step of main(): write the ledger row and return 0.
CliRecord ==
    /\ pc = "record"
    /\ pipeline \in {"main", "src_main"}
    /\ published_topics' = CliRecordedRow(published_topics, pipeline, topic, result)
    /\ returned' = "0"
    /\ pc' = "done"
    /\ UNCHANGED <<publish_status, draws, topic, oracle_calls, draft, is_valid, validator_calls, tier,
                   attempt, requests, result, last_error, cms_posts, run_posts, lost,
                   ledger_len0, config_vars, cli_vars, tax_vars, weekly_fortunes, race_runs, call_vars, weekly>>

Next == StartRun \/ Draw \/ OracleCall \/ Validate \/ Taxonomy \/ PostRequest \/ Record

Spec == Init /\ [][Next]_vars

\* the state before the first command-line run
InitCli ==
    /\ InitRun
    /\ NoCalls
    /\ pipeline = "none"
    /\ configured_status = "draft"
    /\ publish_status = configured_status
    /\ auto_sanitize = TRUE

NextCli ==
    \/ StartMain \/ StartSrcMain \/ Draw \/ OracleCall \/ ImageCall \/ CliValidate
    \/ CliStatus \/ CliPostRequest \/ CliRecord

SpecCli == InitCli /\ [][NextCli]_vars

(***************************************************************************)
(* One ContentPublisher.run against a ledger store that can fail: every    *)
(* SELECT and every INSERT either returns or raises sqlite3.Error.  The    *)
(* run starts from a prepared ledger (empty, all but one combination       *)
(* recorded, or all recorded).                                             *)
(***************************************************************************)
\* the order in which the prepared ledgers record the card types
CardOrder == <<"tarot", "numerology", "oracle">>

\* the combination of a card type (the space holds one card per type)
TopicOf(card_type) == CHOOSE d \in DrawSpace : d.card_type = card_type

RECURSIVE PreparedLedger(_)
\* the ledger after n earlier runs that were accepted as drafts
PreparedLedger(n) ==
    IF n = 0 THEN <<>>
    ELSE save_published_topic(PreparedLedger(n - 1), TopicOf(CardOrder[n]), n, n,
                              "draft", NULL)

InitFault ==
    /\ \E n \in {0, Len(CardOrder) - 1, Len(CardOrder)} :
          /\ published_topics = PreparedLedger(n)
          /\ cms_posts = n
          /\ ledger_len0 = n
    /\ pipeline = "orchestrator"
    /\ configured_status \in Statuses
    /\ publish_status = configured_status
    /\ auto_sanitize \in BOOLEAN
    /\ pc = "idle"
    /\ draws = 0
    /\ topic = NoTopic
    /\ oracle_calls = 0
    /\ draft = NoDraft
    /\ is_valid = FALSE
    /\ validator_calls = <<>>
    /\ tier = "preferred"
    /\ attempt = 0
    /\ requests = <<>>
    /\ result = NoResult
    /\ last_error = ""
    /\ run_posts = 0
    /\ lost = 0
    /\ returned = "none"
    /\ env_status = "unset"
    /\ scheduled = FALSE
    /\ cli_status = ""
    /\ image_calls = 0
    /\ cli_runs = 0
    /\ categories = <<>>
    /\ tags = <<>>
    /\ taxonomy_calls = 0
    /\ weekly_fortunes = <<>>
    /\ race_runs = NoRaceRuns
    /\ weekly = NoWeekly
    /\ NoCalls

\* run() is called once
StartFirstRun ==
    /\ pc = "idle"
    /\ StartRun

\* A SELECT raises: in is_topic_used during an iteration of the draw loop, or
\* in get_stats of calculate_remaining_combinations right after the topic was
\* returned.  The except clause of run() returns False.
LedgerReadFails ==
    /\ pipeline = "orchestrator"
    /\ \/ pc = "allocate" /\ draws < max_attempts
       \/ pc = "generate" /\ oracle_calls = 0
    /\ RunFails
    /\ published_topics' = AbortLedger(published_topics, topic)
    /\ UNCHANGED <<publish_status, draws, topic, oracle_calls, draft, is_valid, validator_calls, tier,
                   attempt, requests, result, last_error, cms_posts, run_posts, lost,
                   ledger_len0, config_vars, cli_vars, tax_vars, weekly_fortunes, race_runs, call_vars, weekly>>

\* an except clause that logs the failed write and reports the publish result
WriteFailureSwallowed(res) == IF res.success THEN "True" ELSE "False"

\* what run() returns when save_published_topic raised in step 6: the
\* exception reaches the except clause of run(), which returns False
WriteFailureReturn(res) == "False"

\* The INSERT of step 6 raises: no row is written.
LedgerWriteFails ==
    /\ pc = "record"
    /\ pipeline = "orchestrator"
    /\ published_topics' = AbortLedger(published_topics, topic)
    /\ returned' = WriteFailureReturn(result)
    /\ pc' = "done"
    /\ categories' = <<>>
    /\ tags' = <<>>
    /\ UNCHANGED <<publish_status, draws, topic, oracle_calls, draft, is_valid, validator_calls, tier,
                   attempt, requests, result, last_error, cms_posts, run_posts, lost,
                   ledger_len0, taxonomy_calls, config_vars, cli_vars, weekly_fortunes, race_runs, call_vars, weekly>>

NextFault ==
    \/ StartFirstRun \/ Draw \/ LedgerReadFails \/ OracleCall \/ Validate \/ Taxonomy
    \/ PostRequest \/ Record \/ LedgerWriteFails

\* every call of the run returns or fails, so the run keeps taking steps
SpecFault == InitFault /\ [][NextFault]_vars /\ WF_vars(NextFault)

(***************************************************************************)
(* The TopicDatabase object under every sequence of its write operations,  *)
(* with arguments of any caller (a key may be saved again).                *)
(***************************************************************************)
\* the statuses a row can carry
RowStatuses == Statuses \cup {"failed"}

\* week_start values: Mondays, as day numbers
Weeks == {0, 7}

\* WeeklyFortuneGenerator.get_week_dates: week_end is the Sunday of the week
WeekEnd(week_start) == week_start + 6

\* save_published_topic is called
SavePublishedTopic ==
    /\ pipeline = "none"
    /\ Len(published_topics) < MaxRows
    /\ \E t \in DrawSpace, status \in RowStatuses :
          published_topics' =
              IF status = "failed"
              THEN save_published_topic(published_topics, t, NULL, NULL, status, "error")
              ELSE save_published_topic(published_topics, t,
                                        Len(published_topics) + 1,
                                        Len(published_topics) + 1, status, NULL)
    /\ UNCHANGED <<publish_status, pc, draws, topic, oracle_calls, draft, is_valid, validator_calls, tier,
                   attempt, requests, result, last_error, cms_posts, run_posts, lost,
                   ledger_len0, returned, config_vars, cli_vars, tax_vars,
                   weekly_fortunes, race_runs, call_vars, weekly>>

\* save_weekly_fortune is called
SaveWeeklyFortune ==
    /\ pipeline = "none"
    /\ Len(weekly_fortunes) < MaxRows
    /\ \E mbti \in MBTI_TYPES, week \in Weeks, status \in RowStatuses :
          weekly_fortunes' =
              IF status = "failed"
              THEN save_weekly_fortune(weekly_fortunes, mbti, week, WeekEnd(week),
                                       NULL, NULL, status, "error")
              ELSE save_weekly_fortune(weekly_fortunes, mbti, week, WeekEnd(week),
                                       Len(weekly_fortunes) + 1,
                                       Len(weekly_fortunes) + 1, status, NULL)
    /\ UNCHANGED <<published_topics, publish_status, pc, draws, topic, oracle_calls,
                   draft, is_valid, validator_calls, tier, attempt, requests, result, last_error,
                   cms_posts, run_posts, lost, ledger_len0, returned, config_vars,
                   cli_vars, tax_vars, race_runs, call_vars, weekly>>

NextDb == SavePublishedTopic \/ SaveWeeklyFortune

SpecDb == InitCli /\ [][NextDb]_vars

(***************************************************************************)
(* Two pipeline runs interleaved against one ledger (two processes, each   *)
(* with its own pipeline objects, on the same database file).  A run reads *)
(* the ledger in each iteration of its draw loop and writes it in its      *)
(* record step; what lies between (generation, validation, taxonomy,       *)
(* publishing) does not touch the ledger and is one step whose outcome is  *)
(* the status to record, or an abort.                                      *)
(***************************************************************************)
\* the other fields of the ledger-free state stay as they are
RaceFrame ==
    UNCHANGED <<publish_status, pc, draws, topic, oracle_calls, draft, is_valid, validator_calls, tier,
                attempt, requests, result, last_error, run_posts, lost, ledger_len0,
                returned, config_vars, cli_vars, tax_vars, weekly_fortunes, call_vars, weekly>>

InitRace ==
    /\ \E n \in {0, Len(CardOrder) - 1, Len(CardOrder)} :
          /\ published_topics = PreparedLedger(n)
          /\ cms_posts = n
          /\ ledger_len0 = n
    /\ pipeline = "none"
    /\ configured_status = "draft"
    /\ publish_status = configured_status
    /\ auto_sanitize = TRUE
    /\ pc = "idle"
    /\ draws = 0
    /\ topic = NoTopic
    /\ oracle_calls = 0
    /\ draft = NoDraft
    /\ is_valid = FALSE
    /\ validator_calls = <<>>
    /\ tier = "preferred"
    /\ attempt = 0
    /\ requests = <<>>
    /\ result = NoResult
    /\ last_error = ""
    /\ run_posts = 0
    /\ lost = 0
    /\ returned = "none"
    /\ env_status = "unset"
    /\ scheduled = FALSE
    /\ cli_status = ""
    /\ image_calls = 0
    /\ cli_runs = 0
    /\ categories = <<>>
    /\ tags = <<>>
    /\ taxonomy_calls = 0
    /\ weekly_fortunes = <<>>
    /\ race_runs = NoRaceRuns
    /\ weekly = NoWeekly
    /\ NoCalls

\* a run is started
RaceStart ==
    /\ \E r \in Runs :
          /\ race_runs[r].pc = "idle"
          /\ race_runs' = [race_runs EXCEPT ![r].pc = "allocate"]
    /\ UNCHANGED <<published_topics, cms_posts>>
    /\ RaceFrame

\* one iteration of the draw loop of a run (as in Draw)
RaceDraw ==
    /\ \E r \in Runs, d \in DrawSpace :
          /\ race_runs[r].pc = "allocate"
          /\ race_runs[r].draws < max_attempts
          /\ IF ~is_topic_used(published_topics, d.mbti, d.love_situation, d.card_name)
             THEN /\ race_runs' = [race_runs EXCEPT ![r].topic = d, ![r].draws = 0,
                                                    ![r].pc = "publish"]
                  /\ published_topics' = LedgerAfterDraw(published_topics, d)
             ELSE /\ race_runs' =
                        [race_runs EXCEPT
                            ![r].draws = @ + 1,
                            ![r].pc = IF race_runs[r].draws + 1 = max_attempts
                                      THEN "done" ELSE "allocate",
                            ![r].status = IF race_runs[r].draws + 1 = max_attempts
                                          THEN "aborted" ELSE @]
                  /\ published_topics' = published_topics
    /\ UNCHANGED cms_posts
    /\ RaceFrame

\* steps 2 to 5 of a run: it aborts (generation failed), or the publish step
\* ends with a post at some status, or with no post at all ("failed")
RacePublish ==
    /\ \E r \in Runs, outcome \in RowStatuses \cup {"aborted"} :
          /\ race_runs[r].pc = "publish"
          /\ cms_posts' = IF outcome \in Statuses THEN cms_posts + 1 ELSE cms_posts
          /\ race_runs' =
                [race_runs EXCEPT
                    ![r].status = outcome,
                    ![r].post_id = IF outcome \in Statuses THEN cms_posts' ELSE NULL,
                    ![r].pc = IF outcome = "aborted" THEN "done" ELSE "record"]
    /\ UNCHANGED published_topics
    /\ RaceFrame

\* step 6 of a run
RaceRecord ==
    /\ \E r \in Runs :
          /\ race_runs[r].pc = "record"
          /\ published_topics' =
                IF race_runs[r].status = "failed"
                THEN save_published_topic(published_topics, race_runs[r].topic, NULL,
                                          NULL, "failed", "error")
                ELSE save_published_topic(published_topics, race_runs[r].topic,
                                          race_runs[r].post_id, race_runs[r].post_id,
                                          race_runs[r].status, NULL)
          /\ race_runs' = [race_runs EXCEPT ![r].pc = "done"]
    /\ UNCHANGED cms_posts
    /\ RaceFrame

NextRace == RaceStart \/ RaceDraw \/ RacePublish \/ RaceRecord

SpecRace == InitRace /\ [][NextRace]_vars

(***************************************************************************)
(* The validator on its own: sanitize_content is called once on a body     *)
(* that the content oracle may have written.  The text of the body is put  *)
(* together from pieces: terms in several cases, parts of terms, a         *)
(* paraphrase, and a term spelt with the long s.  Its length is the        *)
(* minimum or well above it.                                               *)
(***************************************************************************)
\* pieces per text
MaxPieces == 2

TextPieces ==
    { <<"d", "e", "f", "i", "n", "i", "t", "e", "l", "y">>,
      <<"G", "u", "a", "r", "a", "n", "t", "e", "e", "d">>,
      <<"1", "0", "0", "%">>,
      <<"m", "u", "s", "t", " ", "h", "a", "p", "p", "e", "n">>,
      <<"m", "u", "U+017F", "t", " ", "h", "a", "p", "p", "e", "n">>,
      <<"w", "i", "l", "l", " ">>,
      <<"h", "a", "p", "p", "e", "n">>,
      <<"c", "e", "r", "t", "a", "i", "n">>,
      <<"C", "E", "R", "T", "A", "I", "N">>,
      <<"U+BCF4", "U+C7A5">>,
      <<"U+BB34", "U+C870", "U+AC74">>,
      <<"l", "i", "k", "e", "l", "y">>,
      <<" ">>,
      <<"d", "e", "f", "i", "n">>,
      <<"i", "t", "e", "l", "y">>,
      <<"c", "e", "r">>,
      <<"t", "a", "i", "n">> }

RECURSIVE Texts(_)
Texts(n) ==
    IF n = 0 THEN {<<>>}
    ELSE Texts(n - 1) \cup {t \o p : t \in Texts(n - 1), p \in TextPieces}

\* titles: without a term, ending in the first word of a term, with a term
Titles ==
    { <<"t">>,
      <<"m", "u", "s", "t">>,
      <<"1", "0", "0", "%">> }

\* len(content) of the bodies: the minimum, and a length well above it
BodyLens == {MIN_LENGTH, MIN_LENGTH + 400}

InitText ==
    /\ InitRun
    /\ pipeline = "none"
    /\ configured_status = "draft"
    /\ publish_status = configured_status
    /\ auto_sanitize = TRUE
    /\ \E title \in Titles, text \in Texts(MaxPieces), n \in BodyLens :
          arg = [title |-> title,
                 content |-> [text |-> text, rest_len |-> n - Len(text),
                              disclaimer |-> TRUE, h2 |-> MIN_H2]]
    /\ ret = NoCall

\* sanitized = validator.sanitize_content(content)
SanitizeContent ==
    /\ pipeline = "none"
    /\ arg # NoCall
    /\ ret = NoCall
    /\ ret' = sanitize_body(arg.content)
    /\ UNCHANGED <<published_topics, publish_status, pc, draws, topic, oracle_calls, draft,
                   is_valid, validator_calls, tier, attempt, requests, result, last_error, cms_posts,
                   run_posts, lost, ledger_len0, returned, config_vars, cli_vars,
                   tax_vars, weekly_fortunes, race_runs, arg, weekly>>

NextText == SanitizeContent

SpecText == InitText /\ [][NextText]_vars

(***************************************************************************)
(* validate called once on a title and a body.  The body is a first line   *)
(* (a text, character by character) followed by further lines, of which    *)
(* the heading pattern observes the kind:                                  *)
(*   "h2"       "##", white space, heading text                            *)
(*   "h2_bare"  "##" and nothing else on the line                          *)
(*   "h3"       "###", white space, heading text                           *)
(*   "text"     any other line that is not empty                           *)
(*   "empty"    a line without characters                                  *)
(***************************************************************************)
\* lines per body after the first
MaxLines == 4

LineKinds == {"h2", "h2_bare", "h3", "text", "empty"}

RECURSIVE LinesUpTo(_)
LinesUpTo(n) ==
    IF n = 0 THEN {<<>>}
    ELSE LinesUpTo(n - 1) \cup {Append(l, k) : l \in LinesUpTo(n - 1), k \in LineKinds}

\* the first line of content from position i that is not empty, or 0
NextNonEmpty(lines, i) ==
    IF \E j \in i..Len(lines) : lines[j] # "empty"
    THEN CHOOSE j \in i..Len(lines) :
            lines[j] # "empty" /\ \A k \in i..(j - 1) : lines[k] = "empty"
    ELSE 0

\* len(re.findall(r'^##\s+.+$', content, re.MULTILINE)) from line i on: the
\* matches from top to bottom, not overlapping.  \s+ also matches line
\* breaks, so that a match starting at a bare "##" runs on to the end of the
\* next line that is not empty
RECURSIVE h2_matches_from(_, _)
h2_matches_from(lines, i) ==
    IF i > Len(lines) THEN 0
    ELSE IF lines[i] = "h2" THEN 1 + h2_matches_from(lines, i + 1)
    ELSE IF lines[i] = "h2_bare" /\ NextNonEmpty(lines, i + 1) # 0
    THEN 1 + h2_matches_from(lines, NextNonEmpty(lines, i + 1) + 1)
    ELSE h2_matches_from(lines, i + 1)

h2_matches(lines) == h2_matches_from(lines, 1)

\* first lines: empty, part of a term, a term in capitals, a term spelt with
\* the long s, a Korean term
FirstLines ==
    { <<>>,
      <<"h", "a", "p", "p", "e", "n">>,
      <<"C", "E", "R", "T", "A", "I", "N">>,
      <<"m", "u", "U+017F", "t", " ", "h", "a", "p", "p", "e", "n">>,
      <<"U+BCF4", "U+C7A5">> }

\* titles: without a term, ending in the first word of a term
ValidateTitles ==
    { <<"t">>,
      <<"m", "u", "s", "t">> }

\* len(content): one short of the minimum, and the minimum
ValidateLens == {MIN_LENGTH - 1, MIN_LENGTH}

InitValidate ==
    /\ InitRun
    /\ pipeline = "none"
    /\ configured_status = "draft"
    /\ publish_status = configured_status
    /\ auto_sanitize = TRUE
    /\ \E title \in ValidateTitles, text \in FirstLines, n \in ValidateLens,
          d \in BOOLEAN, lines \in LinesUpTo(MaxLines) :
          arg = [title |-> title,
                 content |-> [text |-> text, rest_len |-> n - Len(text),
                              disclaimer |-> d, lines |-> lines,
                              h2 |-> h2_matches(lines)]]
    /\ ret = NoCall

\* is_valid, issues = validator.validate(title, content)
ValidateContent ==
    /\ pipeline = "none"
    /\ arg # NoCall
    /\ ret = NoCall
    /\ ret' = [is_valid |-> Len(validate_body_issues(arg.title, arg.content)) = 0,
               issues |-> validate_body_issues(arg.title, arg.content)]
    /\ UNCHANGED <<published_topics, publish_status, pc, draws, topic, oracle_calls, draft,
                   is_valid, validator_calls, tier, attempt, requests, result, last_error, cms_posts,
                   run_posts, lost, ledger_len0, returned, config_vars, cli_vars,
                   tax_vars, weekly_fortunes, race_runs, arg, weekly>>

NextValidate == ValidateContent

SpecValidate == InitValidate /\ [][NextValidate]_vars

(***************************************************************************)
(* The two validators called on the same title and body.  Here the text of *)
(* the body holds the disclaimer as well, put together from the keywords   *)
(* of SEOValidator, the ending that completes the phrase of                *)
(* ContentValidator after its first keyword, and other words; the rest of  *)
(* the body holds the headings.                                            *)
(***************************************************************************)
\* ContentValidator.required_disclaimer
required_disclaimer == <<"U+CC38", "U+ACE0", " ", "U+C790", "U+B8CC", "U+C77C", " ", "U+BFD0">>

\* SEOValidator.required_disclaimer_keywords
required_disclaimer_keywords ==
    << <<"U+CC38", "U+ACE0", " ", "U+C790", "U+B8CC">>,
       <<"U+C120", "U+D0DD", "U+ACFC", " ", "U+CC45", "U+C784">>,
       <<"U+BCF8", "U+C778", "U+C5D0", "U+AC8C">> >>

\* ContentValidator._check_disclaimer
check_disclaimer(text) == Occurs(required_disclaimer, text)

\* SEOValidator._check_disclaimer
seo_check_disclaimer(text) ==
    \A i \in 1..Len(required_disclaimer_keywords) :
        Occurs(required_disclaimer_keywords[i], text)

\* ContentValidator.validate: the ordered list of issues
validate_text_issues(title, body) ==
    (IF check_forbidden_words_in(title \o <<" ">> \o body.text) # <<>>
     THEN <<"forbidden words">> ELSE <<>>)
    \o (IF ~check_disclaimer(body.text) THEN <<"disclaimer">> ELSE <<>>)
    \o (IF body.h2 < MIN_H2 THEN <<"headings">> ELSE <<>>)
    \o (IF body_len(body) < MIN_LENGTH THEN <<"too short">> ELSE <<>>)

\* SEOValidator.validate: the ordered list of issues
seo_validate_text_issues(title, body) ==
    (IF check_forbidden_words_in(title \o <<" ">> \o body.text) # <<>>
     THEN <<"forbidden words">> ELSE <<>>)
    \o (IF ~seo_check_disclaimer(body.text) THEN <<"disclaimer">> ELSE <<>>)
    \o (IF body.h2 < MIN_H2 THEN <<"headings">> ELSE <<>>)
    \o (IF body_len(body) < MIN_LENGTH THEN <<"too short">> ELSE <<>>)

\* pieces per body text
MaxDisclaimerPieces == 3

\* the three keywords, the ending of the phrase, the phrase, a forbidden term,
\* a word
DisclaimerPieces ==
    { <<"U+CC38", "U+ACE0", " ", "U+C790", "U+B8CC", "U+C77C", " ", "U+BFD0">> } \cup
    { <<"U+CC38", "U+ACE0", " ", "U+C790", "U+B8CC">>,
      <<"U+C77C", " ", "U+BFD0">>,
      <<"U+C120", "U+D0DD", "U+ACFC", " ", "U+CC45", "U+C784">>,
      <<"U+BCF8", "U+C778", "U+C5D0", "U+AC8C">>,
      <<"c", "e", "r", "t", "a", "i", "n">>,
      <<" ", "a", " ">> }

RECURSIVE DisclaimerTexts(_)
DisclaimerTexts(n) ==
    IF n = 0 THEN {<<>>}
    ELSE DisclaimerTexts(n - 1)
            \cup {t \o p : t \in DisclaimerTexts(n - 1), p \in DisclaimerPieces}

InitCompare ==
    /\ InitRun
    /\ pipeline = "none"
    /\ configured_status = "draft"
    /\ publish_status = configured_status
    /\ auto_sanitize = TRUE
    /\ \E title \in ValidateTitles, text \in DisclaimerTexts(MaxDisclaimerPieces),
          n \in ValidateLens, h \in {MIN_H2 - 1, MIN_H2} :
          arg = [title |-> title,
                 content |-> [text |-> text, rest_len |-> n - Len(text), h2 |-> h]]
    /\ ret = NoCall

\* SEOValidator(logger).validate(title, content) and
\* ContentValidator(logger).validate(title, content) on the same arguments
ValidateBoth ==
    /\ pipeline = "none"
    /\ arg # NoCall
    /\ ret = NoCall
    /\ ret' = [seo_issues |-> seo_validate_text_issues(arg.title, arg.content),
               seo_is_valid |-> Len(seo_validate_text_issues(arg.title, arg.content)) = 0,
               issues |-> validate_text_issues(arg.title, arg.content),
               is_valid |-> Len(validate_text_issues(arg.title, arg.content)) = 0]
    /\ UNCHANGED <<published_topics, publish_status, pc, draws, topic, oracle_calls, draft,
                   is_valid, validator_calls, tier, attempt, requests, result, last_error, cms_posts,
                   run_posts, lost, ledger_len0, returned, config_vars, cli_vars,
                   tax_vars, weekly_fortunes, race_runs, arg, weekly>>

NextCompare == ValidateBoth

SpecCompare == InitCompare /\ [][NextCompare]_vars

(***************************************************************************)
(* src/utils/schedule.py and the status decision of main() in main.py, on  *)
(* their own.  A time is a naive datetime: the day (0 is today), hour,     *)
(* minute, second and microsecond.  The date of a time is left out of what *)
(* isoformat() returns, apart from the day.                                *)
(***************************************************************************)
\* the fields of a datetime, most significant first
Fields(t) == <<t.day, t.hour, t.minute, t.second, t.microsecond>>

\* a > b on datetime values
Later(a, b) ==
    \E i \in 1..Len(Fields(a)) :
        /\ Fields(a)[i] > Fields(b)[i]
        /\ \A j \in 1..(i - 1) : Fields(a)[j] = Fields(b)[j]

\* now.replace(hour=h, minute=m, second=0, microsecond=0)
Replace(t, h, m) == [day |-> t.day, hour |-> h, minute |-> m, second |-> 0, microsecond |-> 0]

\* now + timedelta(days=1)
NextDay(t) == [t EXCEPT !.day = t.day + 1]

\* target_times
target_times == <<10, 14, 18>>

\* a search for the next time that never moves on to the next day
get_next_publish_time_today(now, random_minute) ==
    LET future == {i \in 1..Len(target_times) :
                      Later(Replace(now, target_times[i], random_minute), now)}
    IN  IF future # {}
        THEN Replace(now, target_times[CHOOSE i \in future : \A j \in future : i <= j],
                     random_minute)
        ELSE Replace(now, target_times[1], random_minute)

\* schedule.get_next_publish_time with datetime.now() = now and
\* random.randint(0, 59) = random_minute
get_next_publish_time(now, random_minute) ==
    LET future == {i \in 1..Len(target_times) :
                      Later(Replace(now, target_times[i], random_minute), now)}
    IN  IF future # {}
        THEN Replace(now, target_times[CHOOSE i \in future : \A j \in future : i <= j],
                     random_minute)
        ELSE Replace(NextDay(now), target_times[1], random_minute)

\* the minutes of the clock and of random.randint(0, 59) that are tried
Minutes == {0, 30, 59}

\* the clock readings that are tried
Clock ==
    [day : {0}, hour : Hours, minute : Minutes, second : {0, 59}, microsecond : {0, 1}]

InitSchedule ==
    /\ InitRun
    /\ pipeline = "none"
    /\ configured_status = "draft"
    /\ publish_status = configured_status
    /\ auto_sanitize = TRUE
    /\ \E now \in Clock, env \in Statuses \cup {"unset"} :
          arg = [now |-> now, env_status |-> env]
    /\ ret = NoCall

ScheduleFrame ==
    UNCHANGED <<published_topics, publish_status, pc, draws, topic, oracle_calls, draft,
                is_valid, validator_calls, tier, attempt, requests, result, last_error, cms_posts,
                run_posts, lost, ledger_len0, returned, config_vars, cli_vars,
                tax_vars, weekly_fortunes, race_runs, arg, weekly>>

\* main(): should_schedule() is called
ShouldSchedule ==
    /\ pipeline = "none"
    /\ arg # NoCall
    /\ ret = NoCall
    /\ ret' = [should_schedule |-> should_schedule(arg.now.hour)]
    /\ ScheduleFrame

\* main(): the status and the scheduled_date passed to publish_post
ChooseStatus ==
    /\ pipeline = "none"
    /\ ret # NoCall
    /\ DOMAIN ret = {"should_schedule"}
    /\ \E random_minute \in Minutes :
          ret' = [should_schedule |-> ret.should_schedule,
                  status |-> MainStatus(arg.now.hour, arg.env_status),
                  scheduled_date |->
                      IF ret.should_schedule
                      THEN <<get_next_publish_time(arg.now, random_minute)>>
                      ELSE <<>>]
    /\ ScheduleFrame

NextSchedule == ShouldSchedule \/ ChooseStatus

SpecSchedule == InitSchedule /\ [][NextSchedule]_vars

(***************************************************************************)
(* main() of weekly_main.py, run after run.  Days are numbered from a      *)
(* Monday (day 0); a date string "YYYY-MM-DD" is the number of its day.    *)
(* Between two runs the clock stays or moves on.  Generation (three        *)
(* attempts) and publish_post of wordpress.py (three attempts with the     *)
(* draft fallback inside) are one step each; the ledger store is reliable. *)
(***************************************************************************)
\* runs of weekly_main performed one after another
MaxWeeklyRuns == 3

\* MBTI_TYPES as weekly_main iterates over it, cut to its first two entries
WeeklySubjects == <<"INTJ", "INTP">>

\* the days the clock shows when a run starts: two Mondays and a Tuesday
ClockDays == {0, 1, 7}

\* datetime.weekday(): 0 is Monday
weekday(day) == day % 7

\* WeeklyFortuneGenerator.get_week_dates: Monday and Sunday of the week of today
get_week_dates(today) ==
    LET monday == today - weekday(today) IN <<monday, monday + 6>>

\* the subject of the current iteration
CurrentMbti == WeeklySubjects[weekly.idx]

WeeklyFrame ==
    UNCHANGED <<published_topics, publish_status, pc, draws, topic, oracle_calls, draft,
                is_valid, validator_calls, tier, attempt, requests, result, last_error, run_posts, lost,
                ledger_len0, returned, config_vars, cli_vars, tax_vars, race_runs,
                call_vars>>

\* main() is entered; on any day but Monday it returns 0 at once
StartWeekly ==
    /\ weekly.pc \in {"idle", "done"}
    /\ weekly.runs < MaxWeeklyRuns
    /\ \E today \in ClockDays, env \in Statuses \cup {"unset"} :
          /\ today >= weekly.today
          /\ weekly' =
                [pc |-> IF weekday(today) # 0 THEN "done" ELSE "check",
                 today |-> today,
                 week_start |-> get_week_dates(today)[1],
                 week_end |-> get_week_dates(today)[2],
                 idx |-> 1,
                 runs |-> weekly.runs + 1,
                 generated |-> {},
                 requested |-> {},
                 len0 |-> Len(weekly_fortunes),
                 posts0 |-> cms_posts,
                 returned |-> IF weekday(today) # 0 THEN "0" ELSE "none",
                 env_status |-> env,
                 status |-> "",
                 post_id |-> NULL]
    /\ UNCHANGED <<weekly_fortunes, cms_posts>>
    /\ WeeklyFrame

\* the head of the loop and the test of the ledger
WeeklyCheck ==
    /\ weekly.pc = "check"
    /\ IF weekly.idx > Len(WeeklySubjects)
       THEN weekly' = [weekly EXCEPT !.pc = "done", !.returned = "0"]
       ELSE IF is_weekly_fortune_published(weekly_fortunes, CurrentMbti, weekly.week_start)
       THEN weekly' = [weekly EXCEPT !.idx = weekly.idx + 1]
       ELSE weekly' = [weekly EXCEPT !.pc = "generate"]
    /\ UNCHANGED <<weekly_fortunes, cms_posts>>
    /\ WeeklyFrame

\* fortune_gen.generate_weekly_fortune(mbti): content, or the exception of
\* the last attempt, which ends the run with 1
WeeklyGenerate ==
    /\ weekly.pc = "generate"
    /\ \E ok \in BOOLEAN :
          weekly' = [weekly EXCEPT
                        !.generated = weekly.generated \cup {CurrentMbti},
                        !.pc = IF ok THEN "publish" ELSE "done",
                        !.returned = IF ok THEN "none" ELSE "1"]
    /\ UNCHANGED <<weekly_fortunes, cms_posts>>
    /\ WeeklyFrame

\* wp.publish_post: a post at the requested status or as a draft, or an
\* exception, with or without a post left on the CMS, which ends the run
WeeklyPublish ==
    /\ weekly.pc = "publish"
    /\ \E outcome \in {"ok", "draft", "rejected", "lost"} :
          /\ cms_posts' = IF outcome = "rejected" THEN cms_posts ELSE cms_posts + 1
          /\ weekly' =
                [weekly EXCEPT
                    !.requested = weekly.requested \cup {CurrentMbti},
                    !.pc = IF outcome \in {"ok", "draft"} THEN "save" ELSE "done",
                    !.returned = IF outcome \in {"ok", "draft"} THEN "none" ELSE "1",
                    !.status = IF outcome = "ok" THEN getenv(weekly.env_status, "publish")
                               ELSE IF outcome = "draft" THEN "draft" ELSE "",
                    !.post_id = IF outcome \in {"ok", "draft"} THEN cms_posts + 1 ELSE NULL]
    /\ UNCHANGED weekly_fortunes
    /\ WeeklyFrame

\* db.save_weekly_fortune(...) and the next iteration
WeeklySave ==
    /\ weekly.pc = "save"
    /\ weekly_fortunes' =
          save_weekly_fortune(weekly_fortunes, CurrentMbti, weekly.week_start,
                              weekly.week_end, weekly.post_id, weekly.post_id,
                              weekly.status, NULL)
    /\ weekly' = [weekly EXCEPT !.pc = "check", !.idx = weekly.idx + 1]
    /\ UNCHANGED cms_posts
    /\ WeeklyFrame

NextWeekly == StartWeekly \/ WeeklyCheck \/ WeeklyGenerate \/ WeeklyPublish \/ WeeklySave

SpecWeekly == InitCli /\ [][NextWeekly]_vars

(***************************************************************************)
(* The taxonomy step of the three pipelines, lookup by lookup.  The        *)
(* orchestrator uses get_or_create_category / get_or_create_tag of         *)
(* wordpress_publisher.py, main.py and src/main.py those of wordpress.py.  *)
(* A lookup is a GET that searches the name and, depending on its answer,  *)
(* a POST that creates the term.  The search finds a term ("found"), finds *)
(* none ("empty"), is answered with an HTTP error status ("http_error") or *)
(* raises (timeout, connection error, unreadable answer: "raised"); the    *)
(* create request is answered "ok", "http_error" or "raised".  The id of a *)
(* term is modelled by its name, Python's None by "None".                  *)
(***************************************************************************)
SearchOutcomes == {"found", "empty", "http_error", "raised"}

CreateOutcomes == {"ok", "http_error", "raised"}

\* get_or_create_category / get_or_create_tag of wordpress_publisher.py:
\* raise_for_status() after each request, no exception is caught
publisher_get_or_create(name, search, create) ==
    IF search = "found"
    THEN [name |-> name, search |-> search, posted |-> FALSE, raised |-> FALSE, id |-> name]
    ELSE IF search = "empty"
    THEN [name |-> name, search |-> search, posted |-> TRUE, raised |-> create # "ok",
          id |-> IF create = "ok" THEN name ELSE "None"]
    ELSE [name |-> name, search |-> search, posted |-> FALSE, raised |-> TRUE, id |-> "None"]

\* get_or_create_category / get_or_create_tag of wordpress.py: the create
\* request follows unless the search returned a term or raised; every
\* exception is caught and None returned
wordpress_get_or_create(name, search, create) ==
    IF search = "found"
    THEN [name |-> name, search |-> search, posted |-> FALSE, raised |-> FALSE, id |-> name]
    ELSE IF search = "raised"
    THEN [name |-> name, search |-> search, posted |-> FALSE, raised |-> FALSE, id |-> "None"]
    ELSE [name |-> name, search |-> search, posted |-> TRUE, raised |-> FALSE,
          id |-> IF create = "ok" THEN name ELSE "None"]

\* the category and the tags main() of main.py and of src/main.py look up
CliCategoryTerms == <<"MBTI type">>

CliTagTerms == <<"mbti", "card">>

\* the names a pipeline looks up, by kind of term
LookupTerms(p, kind) ==
    IF p = "orchestrator"
    THEN (IF kind = "category" THEN CategoryTerms ELSE TagTerms)
    ELSE (IF kind = "category" THEN CliCategoryTerms ELSE CliTagTerms)

\* the list a pipeline holds after a lookup returned or raised:
\* _get_categories / _get_tags append the id and return [] on an exception;
\* main.py appends an id that is not None; src/main.py appends what it got
ListAfterLookup(p, list, lookup) ==
    IF p = "orchestrator"
    THEN (IF lookup.raised THEN <<>> ELSE Append(list, lookup.id))
    ELSE IF p = "main"
    THEN (IF lookup.id # "None" THEN Append(list, lookup.id) ELSE list)
    ELSE Append(list, lookup.id)

InitTaxonomy ==
    /\ InitRun
    /\ pipeline = "none"
    /\ configured_status = "draft"
    /\ publish_status = configured_status
    /\ auto_sanitize = TRUE
    /\ arg \in [pipeline : {"orchestrator", "main", "src_main"}]
    /\ ret = [kind |-> "category", n |-> 0, lookups |-> <<>>]

\* one get_or_create call of the taxonomy step and what the pipeline does
\* with its result
GetOrCreate ==
    /\ pipeline = "none"
    /\ arg # NoCall
    /\ "pipeline" \in DOMAIN arg
    /\ ret.kind \in {"category", "tag"}
    /\ \E search \in SearchOutcomes, create \in CreateOutcomes :
          LET terms == LookupTerms(arg.pipeline, ret.kind)
              name == terms[ret.n + 1]
              lookup == IF arg.pipeline = "orchestrator"
                        THEN publisher_get_or_create(name, search, create)
                        ELSE wordpress_get_or_create(name, search, create)
              last == lookup.raised \/ ret.n + 1 = Len(terms)
              list == IF ret.kind = "category" THEN categories ELSE tags
          IN  /\ IF ret.kind = "category"
                 THEN /\ categories' = ListAfterLookup(arg.pipeline, list, lookup)
                      /\ tags' = tags
                 ELSE /\ tags' = ListAfterLookup(arg.pipeline, list, lookup)
                      /\ categories' = categories
              /\ ret' = [kind |-> IF ~last THEN ret.kind
                                  ELSE IF ret.kind = "category" THEN "tag" ELSE "done",
                         n |-> IF last THEN 0 ELSE ret.n + 1,
                         lookups |-> Append(ret.lookups, [lookup EXCEPT !.name = <<ret.kind, name>>])]
    /\ UNCHANGED <<published_topics, publish_status, pc, draws, topic, oracle_calls, draft,
                   is_valid, validator_calls, tier, attempt, requests, result, last_error, cms_posts,
                   run_posts, lost, ledger_len0, returned, config_vars, cli_vars,
                   taxonomy_calls, weekly_fortunes, race_runs, arg, weekly>>

NextTaxonomy == GetOrCreate

SpecTaxonomy == InitTaxonomy /\ [][NextTaxonomy]_vars

(***************************************************************************)
(* Properties.                                                             *)
(***************************************************************************)
\* the key of a ledger row
RowKey(row) == <<row.mbti, row.love_situation, row.tarot_card>>

\* the key of a topic
TopicKey(t) == <<t.mbti, t.love_situation, t.card_name>>

\* the rows written since the active run started
RowsAdded == Len(published_topics) - ledger_len0

\* the last row of the ledger
LastRow == published_topics[Len(published_topics)]

\* the run has passed its validation step and its content is still invalid
\* for ContentValidator
StillInvalid ==
    /\ pc \in {"publish", "record", "done"}
    /\ draft # NoDraft
    /\ ~validate(draft.title, draft.content)

\* the content oracle returned a draft in this run
Generated == draft # NoDraft

\* every combination of the topic space had a row when the run started
ExhaustedAtStart ==
    \A d \in DrawSpace :
        \E i \in 1..ledger_len0 : RowKey(published_topics[i]) = TopicKey(d)

\* C1: over every sequence of ContentPublisher.run executions performed one
\* after another against one ledger, the rows of published_topics have
\* pairwise distinct keys (mbti, love_situation, card name).
C1_KeysPairwiseDistinct ==
    \A i, j \in 1..Len(published_topics) :
        i # j => RowKey(published_topics[i]) # RowKey(published_topics[j])

\* C1 witness: three runs have recorded, one of them a failed attempt.
C1_Witness ==
    /\ Len(published_topics) = 3
    /\ \E i \in 1..3 : published_topics[i].status = "failed"

\* C2: the topic generate_unique_topic returned has no row in the ledger at
\* the time of the call, whatever the status of the rows; is_topic_used is
\* true for a key exactly when some row holds that 3-tuple.
C2_ReturnedTopicUnused ==
    /\ pc = "generate" =>
         \A i \in 1..Len(published_topics) :
             RowKey(published_topics[i]) # TopicKey(topic)
    /\ \A d \in DrawSpace :
         is_topic_used(published_topics, d.mbti, d.love_situation, d.card_name)
         <=> \E i \in 1..Len(published_topics) :
                 RowKey(published_topics[i]) = TopicKey(d)

\* C2 witness: a topic was returned while the ledger held a failed row and a
\* draft row.
C2_Witness ==
    /\ pc = "generate"
    /\ \E i \in 1..Len(published_topics) : published_topics[i].status = "failed"
    /\ \E i \in 1..Len(published_topics) : published_topics[i].status = "draft"

\* C3: in a ContentPublisher configured with publish or future, when the
\* content is still invalid after the validation step, every post request of
\* the run carries status draft, and the row recorded for an accepted post
\* has status draft.
C3_InvalidContentOnlyDraft ==
    (configured_status \in {"publish", "future"} /\ StillInvalid) =>
        /\ \A i \in 1..Len(requests) : requests[i] = "draft"
        /\ (result.success => result.status = "draft")
        /\ RowsAdded > 0 => LastRow.status \in {"draft", "failed"}
        /\ (RowsAdded > 0 /\ result.success) => LastRow.status = "draft"

\* C3 witness: a run configured with publish whose content stayed invalid
\* has posted, the CMS accepted, and the row is recorded.
C3_Witness ==
    /\ configured_status = "publish"
    /\ StillInvalid
    /\ pc = "done"
    /\ returned = "True"
    /\ RowsAdded = 1
    /\ LastRow.status = "draft"

\* C4 (as claimed): in the command-line pipelines, when the content still
\* fails validation after sanitize_content, every post request carries
\* status draft.
C4_CliInvalidContentOnlyDraft ==
    (/\ pipeline \in {"main", "src_main"}
     /\ pc \in {"publish", "record", "done"}
     /\ Generated
     /\ ~seo_validate(draft.title, draft.content))
    => \A i \in 1..Len(requests) : requests[i] = "draft"

\* C5: once the content was generated, ContentPublisher.run has written
\* exactly one row for the topic when it returns: the CMS-returned status
\* and post reference when a publish attempt succeeded (and run returns
\* True); status failed, no post reference and the captured error when the
\* preferred-status attempts and the draft fallback all failed.  No row is
\* written before the publish step has ended.
C5_OneRowPerGeneratedRun ==
    /\ (Generated /\ pc \in {"validate", "publish", "record"}) => RowsAdded = 0
    /\ (Generated /\ pc = "done") =>
         /\ RowsAdded = 1
         /\ RowKey(LastRow) = TopicKey(topic)
         /\ IF result.success
            THEN /\ LastRow.status = result.status
                 /\ LastRow.status = requests[Len(requests)]
                 /\ LastRow.post_id = cms_posts
                 /\ LastRow.post_url = cms_posts
                 /\ LastRow.post_id # NULL
                 /\ LastRow.error_message = NULL
                 /\ returned = "True"
            ELSE /\ Len(requests) = 2 * STOP_AFTER_ATTEMPT
                 /\ LastRow.status = "failed"
                 /\ LastRow.post_id = NULL
                 /\ LastRow.post_url = NULL
                 /\ LastRow.error_message = last_error
                 /\ LastRow.error_message # ""
                 /\ returned = "False"

\* C5 witness: every request of the run failed and the failed row is written.
C5_Witness ==
    /\ pc = "done"
    /\ Generated
    /\ ~result.success
    /\ Len(requests) = 6
    /\ LastRow.status = "failed"

\* C6 (as claimed): every run that called the content oracle has appended
\* exactly one row when it returns.
C6_OneRowPerRunReachingGenerate ==
    (pc = "done" /\ oracle_calls > 0) => RowsAdded = 1

\* C6 (amended): a run whose content generation succeeded has appended
\* exactly one row when it returns; a run whose generate_content failed on
\* all its attempts has appended none.
C6_OneRowIffGenerated ==
    /\ RowsAdded \in {0, 1}
    /\ (pc = "done" /\ oracle_calls > 0) =>
         RowsAdded = (IF Generated THEN 1 ELSE 0)

\* C6 witness: the oracle failed three times and the run returned False with
\* no row written.
C6_Witness ==
    /\ pc = "done"
    /\ oracle_calls = 3
    /\ ~Generated
    /\ returned = "False"
    /\ RowsAdded = 0

\* C7 (as claimed): in the command-line pipelines, once generate_content
\* returned a draft, a row for the topic is written before main returns.
C7_CliRowOnceGenerated ==
    (pipeline \in {"main", "src_main"} /\ pc = "done" /\ Generated) =>
        /\ RowsAdded = 1
        /\ RowKey(LastRow) = TopicKey(topic)

\* C8: when every request at the preferred non-draft status failed and a
\* draft request was accepted, run returns True and the row it records has
\* status draft.
C8_DraftFallbackSucceeds ==
    (/\ pc = "done"
     /\ Len(requests) > STOP_AFTER_ATTEMPT
     /\ \A i \in 1..STOP_AFTER_ATTEMPT : requests[i] # "draft"
     /\ result.success)
    => /\ returned = "True"
       /\ RowsAdded = 1
       /\ LastRow.status = "draft"
       /\ \A i \in (STOP_AFTER_ATTEMPT + 1)..Len(requests) : requests[i] = "draft"

\* C8 witness: three publish requests failed, the draft request was accepted.
C8_Witness ==
    /\ pc = "done"
    /\ requests = <<"publish", "publish", "publish", "draft">>
    /\ returned = "True"
    /\ LastRow.status = "draft"

\* C9 (as claimed): a pipeline run creates at most one post on the CMS.
C9_AtMostOnePost == run_posts <= 1

\* C10: when every combination of the topic space has a row, the run makes
\* exactly 100 draws, gets no topic, and ends in failure without calling the
\* content oracle or the CMS and without writing to the ledger.
C10_Exhaustion ==
    (pc # "idle" /\ ExhaustedAtStart) =>
        /\ pc \in {"allocate", "done"}
        /\ topic = NoTopic
        /\ oracle_calls = 0
        /\ requests = <<>>
        /\ run_posts = 0
        /\ RowsAdded = 0
        /\ draws <= 100
        /\ pc = "done" => (draws = 100 /\ returned = "False")

\* C10 witness: a run against the exhausted topic space has ended.
C10_Witness ==
    /\ pc = "done"
    /\ ExhaustedAtStart
    /\ draws = 100
    /\ returned = "False"

\* C11 (as claimed): generate_unique_topic reports exhaustion only when no
\* unused combination exists; with unused combinations left it returns one
\* within its 100 draws.
C11_ExhaustionOnlyWhenNoneUnused ==
    (pc = "done" /\ topic = NoTopic) => ExhaustedAtStart

\* C12: when a run aborts before the publish step (topic exhaustion, or
\* content generation failing on all its attempts), the ledger is as the run
\* found it, and the drawn topic has no row: is_topic_used is false for it,
\* so a later generate_unique_topic can return it.
C12_AbortLeavesTopicAvailable ==
    (pc = "done" /\ ~Generated) =>
        /\ RowsAdded = 0
        /\ returned = "False"
        /\ topic # NoTopic =>
             /\ \A i \in 1..Len(published_topics) :
                    RowKey(published_topics[i]) # TopicKey(topic)
             /\ ~is_topic_used(published_topics, topic.mbti, topic.love_situation,
                               topic.card_name)
             /\ topic \in DrawSpace

\* C12 witness: against a ledger of two rows, a run drew the third topic and
\* its content generation failed on all attempts.
C12_Witness ==
    /\ pc = "done"
    /\ ~Generated
    /\ topic # NoTopic
    /\ oracle_calls = 3
    /\ Len(published_topics) = 2

\* C13: whatever lookups of step 4 fail, run() goes on to the publish step
\* without returning and without touching the ledger, sends a post request,
\* writes the ledger row, and reports the success of the publish step alone.
C13_TaxonomyFailureNotFatal ==
    /\ [](/\ pc \in {"publish", "record"} => (taxonomy_calls = 2 /\ returned = "none")
          /\ (pc = "record" \/ (pc = "done" /\ Generated)) => Len(requests) >= 1
          /\ (pc = "done" /\ Generated) =>
               /\ taxonomy_calls = 2
               /\ RowsAdded = 1
               /\ returned = (IF result.success THEN "True" ELSE "False"))
    /\ [][/\ pc = "taxonomy" =>
               /\ pc' = "publish"
               /\ returned' = returned
               /\ published_topics' = published_topics
          /\ pc = "record" =>
               /\ Len(published_topics') = Len(published_topics) + 1
               /\ returned' = (IF result.success THEN "True" ELSE "False")]_vars

\* C13 witness: the category and the tag lookups failed (both lists empty),
\* the post request was sent and accepted, and the row is about to be written.
C13_Witness ==
    /\ pc = "record"
    /\ taxonomy_calls = 2
    /\ categories = <<>>
    /\ tags = <<>>
    /\ result.success

\* C14: the content oracle is called at most 3 times per run and never again
\* after an attempt returned a draft; when all 3 attempts fail the run ends in
\* failure with no taxonomy call, no post request, no CMS post and no row.
C14_GenerationRetries ==
    /\ oracle_calls <= 3
    /\ Generated => pc # "generate"
    /\ pc = "generate" => (returned = "none" /\ ~Generated)
    /\ (pc = "done" /\ ~Generated /\ topic # NoTopic) =>
         /\ oracle_calls = 3
         /\ returned = "False"
         /\ taxonomy_calls = 0
         /\ requests = <<>>
         /\ run_posts = 0
         /\ RowsAdded = 0

\* C14 witness: after a run that recorded, a run's oracle failed three times.
C14_Witness ==
    /\ pc = "done"
    /\ oracle_calls = 3
    /\ ~Generated
    /\ taxonomy_calls = 0
    /\ requests = <<>>
    /\ Len(published_topics) = 1

\* C15: whatever the oracle, the CMS and the ledger store do, as long as every
\* call returns or fails, a run that was started eventually returns, and what
\* it returns is True or False: no exception reaches the caller.
C15_RunReturns ==
    /\ (pc = "allocate") ~> (pc = "done")
    /\ [](pc = "done" => returned \in {"True", "False"})
    /\ [](pc # "done" => returned = "none")

\* C15 witness: the ledger store failed in the middle of the draw loop and
\* the run returned False.
C15_Witness ==
    /\ pc = "done"
    /\ returned = "False"
    /\ topic = NoTopic
    /\ draws > 0
    /\ draws < 100

\* C16: run returns True only when the row of the topic has been written;
\* when save_published_topic fails after the CMS accepted the post, run
\* returns False.
C16_TrueOnlyWhenRecorded ==
    /\ returned = "True" =>
         /\ RowsAdded = 1
         /\ RowKey(LastRow) = TopicKey(topic)
    /\ (pc = "done" /\ result.success /\ RowsAdded = 0) => returned = "False"

\* C16 witness: the CMS accepted the post, the ledger write failed, and the
\* run returned False with no row written.
C16_Witness ==
    /\ pc = "done"
    /\ result.success
    /\ run_posts >= 1
    /\ RowsAdded = 0
    /\ returned = "False"

\* the rows of a table are kept by a step: the table after it starts with them
IsPrefix(old, new) ==
    /\ Len(old) <= Len(new)
    /\ \A i \in 1..Len(old) : new[i] = old[i]

\* C17: the ledger is append-only: every save adds exactly one row to its own
\* table and keeps every existing row of both tables as it is, so
\* is_topic_used and is_weekly_fortune_published, once true, stay true.
C17_AppendOnly ==
    [][/\ IsPrefix(published_topics, published_topics')
       /\ IsPrefix(weekly_fortunes, weekly_fortunes')
       /\ Len(published_topics') + Len(weekly_fortunes')
            = Len(published_topics) + Len(weekly_fortunes) + 1
       /\ \A d \in DrawSpace :
            is_topic_used(published_topics, d.mbti, d.love_situation, d.card_name)
            => is_topic_used(published_topics', d.mbti, d.love_situation, d.card_name)
       /\ \A m \in MBTI_TYPES, w \in Weeks :
            is_weekly_fortune_published(weekly_fortunes, m, w)
            => is_weekly_fortune_published(weekly_fortunes', m, w)]_vars

\* C17 witness: a key was saved a second time and its first row is still
\* there, and the weekly table holds two rows of one subject and week.
C17_Witness ==
    /\ Len(published_topics) = 2
    /\ RowKey(published_topics[1]) = RowKey(published_topics[2])
    /\ published_topics[1].status # published_topics[2].status
    /\ Len(weekly_fortunes) = 2
    /\ weekly_fortunes[1].week_start = weekly_fortunes[2].week_start

\* run r holds a drawn topic whose row it has not written yet
HoldsTopic(r) == race_runs[r].pc \in {"publish", "record"}

\* run r has written the row of its topic
HasRecorded(r) ==
    /\ race_runs[r].pc = "done"
    /\ race_runs[r].status \in RowStatuses

\* C18: allocation does not reserve the topic: while a run holds a drawn
\* topic it has not recorded, is_topic_used is true for that topic only if
\* another run has recorded the same topic; nothing keeps a second run from
\* being handed the same topic, and each run records the topic it drew.
C18_NoReservation ==
    /\ \A r \in Runs :
         HoldsTopic(r) =>
             (is_topic_used(published_topics, race_runs[r].topic.mbti,
                            race_runs[r].topic.love_situation,
                            race_runs[r].topic.card_name)
              <=> \E o \in Runs \ {r} :
                      HasRecorded(o) /\ race_runs[o].topic = race_runs[r].topic)
    /\ \A r \in Runs :
         HasRecorded(r) =>
             \E i \in (ledger_len0 + 1)..Len(published_topics) :
                 RowKey(published_topics[i]) = TopicKey(race_runs[r].topic)
    /\ Len(published_topics) - ledger_len0
         = Cardinality({r \in Runs : HasRecorded(r)})

\* C18 witness: both runs were handed the same topic and the ledger ends
\* with two rows for its key.
C18_Witness ==
    /\ \A r \in Runs : HasRecorded(r)
    /\ race_runs["A"].topic = race_runs["B"].topic
    /\ Len(published_topics) = ledger_len0 + 2
    /\ RowKey(published_topics[ledger_len0 + 1])
         = RowKey(published_topics[ledger_len0 + 2])

\* the terms that have an entry in the substitution table
Substituted == {replacements[k][1] : k \in 1..Len(replacements)}

\* every term of FORBIDDEN_WORDS has an entry in the table
EveryTermSubstituted ==
    \A i \in 1..Len(forbidden_words) : forbidden_words[i] \in Substituted

\* no paraphrase of the table holds a forbidden term, in any case
NoParaphraseForbidden ==
    \A k \in 1..Len(replacements) :
        /\ check_forbidden_words_in(replacements[k][2]) = <<>>
        /\ \A i \in 1..Len(forbidden_words) :
              ~ignorecase_search(forbidden_words[i], replacements[k][2])

\* a forbidden term occurs in the text in upper or mixed case
HasCapitalTerm(text) ==
    /\ check_forbidden_words_in(text) # <<>>
    /\ \A i \in 1..Len(forbidden_words) : ~Occurs(forbidden_words[i], text)

\* C19: whatever the body, the text sanitize_content returns holds no
\* forbidden term in any case (neither as _check_forbidden_words looks for
\* it nor as the patterns match it); every term of FORBIDDEN_WORDS has an
\* entry in the substitution table, and no paraphrase of the table holds a
\* forbidden term
C19_SanitizedHasNoForbiddenTerm ==
    /\ EveryTermSubstituted
    /\ NoParaphraseForbidden
    /\ ret # NoCall =>
          /\ check_forbidden_words_in(ret.text) = <<>>
          /\ \A i \in 1..Len(forbidden_words) :
                ~ignorecase_search(forbidden_words[i], ret.text)

\* a body with a term in capitals next to a part of a term was sanitized
C19_Witness ==
    /\ ret # NoCall
    /\ HasCapitalTerm(arg.content.text)
    /\ Occurs(<<"c", "e", "r">>, ret.text)
    /\ ret.text # arg.content.text

\* the four rules of validate on the body itself
BodySatisfiesRules(body) == validate_body(<<>>, body)

\* C20: sanitize_content returns a body in which _check_forbidden_words
\* finds no term as it is, sanitizing twice gives what sanitizing once
\* gives, and for a title without a forbidden term and a body that
\* satisfies the four rules, validate(title, sanitize_content(body)) is
\* (True, [])
C20_SanitizeKeepsValidBodies ==
    ret # NoCall =>
        /\ check_forbidden_words_in(arg.content.text) = <<>> => ret = arg.content
        /\ sanitize_body(ret) = ret
        /\ (/\ check_forbidden_words_in(arg.title) = <<>>
            /\ BodySatisfiesRules(arg.content))
           => validate_body_issues(arg.title, ret) = <<>>

\* the term occurs in the text, letters compared without regard to ASCII case
CaselessOccurs(term, text) ==
    \E i \in 1..(Len(text) - Len(term) + 1) :
        \A k \in 1..Len(term) :
            \/ text[i + k - 1] = term[k]
            \/ /\ text[i + k - 1] \in DOMAIN ascii_lower
               /\ ascii_lower[text[i + k - 1]] = term[k]

\* the four rules of the validator on a title and a body; a second-level
\* heading line is a line of "##", white space and heading text
RuleForbidden(title, body) ==
    \A i \in 1..Len(forbidden_words) :
        ~CaselessOccurs(forbidden_words[i], title \o <<" ">> \o body.text)

RuleDisclaimer(body) == body.disclaimer

RuleHeadings(body) ==
    Cardinality({i \in 1..Len(body.lines) : body.lines[i] = "h2"}) >= MIN_H2

RuleLength(body) == body_len(body) >= MIN_LENGTH

\* the issues in the fixed order, one per violated rule
ExpectedIssues(title, body) ==
    (IF ~RuleForbidden(title, body) THEN <<"forbidden words">> ELSE <<>>)
    \o (IF ~RuleDisclaimer(body) THEN <<"disclaimer">> ELSE <<>>)
    \o (IF ~RuleHeadings(body) THEN <<"headings">> ELSE <<>>)
    \o (IF ~RuleLength(body) THEN <<"too short">> ELSE <<>>)

\* C21: validate returns is_valid = True exactly when the four rules hold
\* (no forbidden term in title + " " + body in any case, the disclaimer
\* phrase in the body, at least 3 second-level heading lines, at least 1000
\* characters); is_valid is True iff the issues list is empty, and the issues
\* are one per violated rule in the order forbidden words, disclaimer,
\* headings, length
C21_ValidIffFourRules ==
    ret # NoCall =>
        /\ ret.is_valid <=> (ret.issues = <<>>)
        /\ ret.is_valid <=> (/\ RuleForbidden(arg.title, arg.content)
                             /\ RuleDisclaimer(arg.content)
                             /\ RuleHeadings(arg.content)
                             /\ RuleLength(arg.content))
        /\ ret.issues = ExpectedIssues(arg.title, arg.content)

\* the hours inside a publishing window
WindowHours == {9, 10, 13, 14, 17, 18}

\* main() has chosen the status of the post
StatusChosen == ret # NoCall /\ "status" \in DOMAIN ret

\* C22: should_schedule() returns False exactly in the hours 9, 10, 13, 14,
\* 17 and 18 and True in every other hour; main() passes status future
\* together with a scheduled date iff should_schedule() returned True
C22_ScheduleOutsideWindows ==
    /\ ret # NoCall => (~ret.should_schedule <=> arg.now.hour \in WindowHours)
    /\ StatusChosen =>
          /\ (ret.status = "future" /\ ret.scheduled_date # <<>>) <=> ret.should_schedule
          /\ ret.scheduled_date # <<>> => ret.status = "future"

\* at 11 o'clock, the hour a window closes, the post is scheduled
C22_Witness ==
    /\ StatusChosen
    /\ arg.now.hour = 11
    /\ ret.should_schedule
    /\ ret.status = "future"
    /\ ret.scheduled_date # <<>>

\* the target hours later than the hour of the clock
HoursAhead(now) == {h \in {10, 14, 18} : h > now.hour}

WeekComplete(table, n, week_start) ==
    \A k \in 1..Len(WeeklySubjects) :
        is_weekly_fortune_published(SubSeq(table, 1, n), WeeklySubjects[k], week_start)

\* C23: over every sequence of weekly_main runs, weekly_fortunes holds at
\* most one entry per (mbti, week_start); content is generated and a post is
\* requested only for a subject that has no entry for the current week; a
\* run that starts when every subject has its entry for the week posts
\* nothing and writes nothing
C23_OneEntryPerSubjectAndWeek ==
    /\ [](\A i, j \in 1..Len(weekly_fortunes) :
             (/\ weekly_fortunes[i].mbti = weekly_fortunes[j].mbti
              /\ weekly_fortunes[i].week_start = weekly_fortunes[j].week_start) => i = j)
    /\ [][\A k \in 1..Len(WeeklySubjects) :
             (\/ WeeklySubjects[k] \in weekly'.generated \ weekly.generated
              \/ WeeklySubjects[k] \in weekly'.requested \ weekly.requested)
             => ~is_weekly_fortune_published(weekly_fortunes, WeeklySubjects[k],
                                             weekly.week_start)]_vars
    /\ []((/\ weekly.pc # "idle"
           /\ weekday(weekly.today) = 0
           /\ WeekComplete(weekly_fortunes, weekly.len0, weekly.week_start))
          => /\ weekly.generated = {}
             /\ weekly.requested = {}
             /\ Len(weekly_fortunes) = weekly.len0
             /\ cms_posts = weekly.posts0)

\* a second run on the same Monday, after a run that completed, has ended
C23_Witness ==
    /\ weekly.pc = "done"
    /\ weekly.runs = 2
    /\ weekly.today = 0
    /\ weekly.returned = "0"
    /\ WeekComplete(weekly_fortunes, weekly.len0, weekly.week_start)
    /\ Len(weekly_fortunes) = Len(WeeklySubjects)

\* the status the pipeline asked the publisher for
PreferredStatus == IF pipeline = "orchestrator" THEN publish_status ELSE cli_status

\* C24: in both publishers a request at status draft is sent for a non-draft
\* preferred status only after three requests at the preferred status have
\* failed: a single failed request is retried at the preferred status
C24_DraftOnlyAfterThreeFailures ==
    PreferredStatus # "draft" =>
        \A k \in 1..Len(requests) :
            requests[k] = "draft" =>
                /\ k > STOP_AFTER_ATTEMPT
                /\ \A j \in 1..STOP_AFTER_ATTEMPT : requests[j] = PreferredStatus

\* C25: when the preferred status is draft already, the publish step ends
\* with failure once the 3 retries are exhausted: no further draft attempt is
\* made and at most 3 post requests are sent
C25_NoFallbackFromDraft ==
    PreferredStatus = "draft" =>
        /\ Len(requests) <= STOP_AFTER_ATTEMPT
        /\ tier # "fallback"

\* the ids the lookups of one kind returned, in the order of the lookups
RECURSIVE ReturnedIds(_, _)
ReturnedIds(lookups, kind) ==
    IF lookups = <<>> THEN <<>>
    ELSE LET l == Head(lookups)
         IN  (IF l.name[1] = kind /\ ~l.raised /\ l.id # "None" THEN <<l.id>> ELSE <<>>)
             \o ReturnedIds(Tail(lookups), kind)

\* the taxonomy step is over: the lists are passed to the publisher
TermsAttached == "kind" \in DOMAIN ret /\ ret.kind = "done"

\* C26: the category and tag ids sent with the post are exactly the ids the
\* lookups of the run returned: after a failed get_or_create call the ids
\* obtained from the other calls are still attached
C26_SucceededIdsAttached ==
    TermsAttached =>
        /\ categories = ReturnedIds(ret.lookups, "category")
        /\ tags = ReturnedIds(ret.lookups, "tag")

\* C27: a create request is sent only after the search succeeded and found
\* no term; a found term is returned without a create request, and no term
\* is created when the search request failed
C27_CreateOnlyAfterEmptySearch ==
    "lookups" \in DOMAIN ret =>
        \A i \in 1..Len(ret.lookups) :
            LET l == ret.lookups[i]
            IN  /\ l.posted => l.search = "empty"
                /\ l.search = "found" => (~l.posted /\ ~l.raised /\ l.id = l.name[2])

\* the only violation of the draft is forbidden vocabulary in its body
OnlyForbiddenInBody(d) ==
    /\ d.title.forbidden = {}
    /\ d.content.forbidden # {}
    /\ d.content.disclaimer
    /\ d.content.h2 >= MIN_H2
    /\ d.content.len >= MIN_LENGTH

\* step 3 of run() is taken
ValidationStep == pipeline = "orchestrator" /\ pc = "validate" /\ pc' = "taxonomy"

\* C28 (as claimed): when the only violation of the generated draft is
\* forbidden vocabulary in the body, the first validate fails, the sanitize
\* pass makes the second validate succeed, and the status is not downgraded
C28_ForbiddenBodyAlwaysRepaired ==
    [][(ValidationStep /\ OnlyForbiddenInBody(draft)) =>
          /\ ~validate(draft.title, draft.content)
          /\ is_valid'
          /\ publish_status' = publish_status]_vars

\* C28 (amended): with auto_sanitize on, when the only violation of the
\* generated draft is forbidden vocabulary in the body and the body is still
\* at least 1000 characters long after the substitutions, the first validate
\* fails, the sanitize pass makes the second validate succeed, the status is
\* not downgraded, and the first post request carries the status the
\* instance held when validation began
C28_ForbiddenBodyRepairedWhenLongEnough ==
    /\ [][(/\ ValidationStep
           /\ OnlyForbiddenInBody(draft)
           /\ auto_sanitize
           /\ sanitize_content(draft.content).len >= MIN_LENGTH) =>
             /\ ~validate(draft.title, draft.content)
             /\ draft'.content = sanitize_content(draft.content)
             /\ is_valid'
             /\ validate(draft'.title, draft'.content)
             /\ publish_status' = publish_status]_vars
    /\ []((pipeline = "orchestrator" /\ pc \in {"publish", "record"} /\ is_valid
           /\ Len(requests) > 0)
          => requests[1] = publish_status)

\* the draft with "100%" in a body of 1400 characters was sanitized (1402
\* characters) and its post accepted at the configured status publish
C28_Witness ==
    /\ pipeline = "orchestrator"
    /\ pc = "record"
    /\ configured_status = "publish"
    /\ draft.content.len = 1402
    /\ draft.content.forbidden = {}
    /\ is_valid
    /\ requests = <<"publish">>
    /\ result.success
    /\ result.status = "publish"

\* C30: generate_unique_topic only reads the ledger: the step that draws adds,
\* changes and removes no row, and a topic that was drawn and is not yet
\* recorded is still reported unused by is_topic_used
C30_DrawOnlyReads ==
    /\ [][pc = "allocate" => published_topics' = published_topics]_vars
    /\ []((pipeline = "orchestrator"
           /\ pc \in {"generate", "validate", "taxonomy", "publish"})
          => ~is_topic_used(published_topics, topic.mbti, topic.love_situation,
                            topic.card_name))

\* a topic was drawn against a ledger that holds the row of a failed attempt,
\* and its post is being requested
C30_Witness ==
    /\ pipeline = "orchestrator"
    /\ pc = "publish"
    /\ topic # NoTopic
    /\ Len(requests) > 0
    /\ \E i \in 1..Len(published_topics) : published_topics[i].status = "failed"
    /\ ~is_topic_used(published_topics, topic.mbti, topic.love_situation, topic.card_name)

\* the number of calls of method m in the sequence calls
RECURSIVE CountCalls(_, _)
CountCalls(calls, m) ==
    IF calls = <<>> THEN 0
    ELSE (IF Head(calls) = m THEN 1 ELSE 0) + CountCalls(Tail(calls), m)

\* run() is past step 3 and has not returned
PastValidation == pipeline = "orchestrator" /\ pc \in {"taxonomy", "publish", "record"}

\* C31: in one run() sanitize_content is called at most once and validate at
\* most twice; sanitize_content is called only after a failed first validate;
\* a failed second validate leads directly to the draft downgrade, and once
\* step 3 is over the run makes no further validator call, no further
\* generation attempt and no change to the draft
C31_OneSanitizeTwoValidates ==
    /\ [](pipeline = "orchestrator" =>
            /\ CountCalls(validator_calls, "sanitize_content") <= 1
            /\ CountCalls(validator_calls, "validate") <= 2
            /\ (CountCalls(validator_calls, "sanitize_content") = 1
                  => validator_calls = <<"validate", "sanitize_content", "validate">>))
    /\ [][ValidationStep =>
            /\ validator_calls'[1] = "validate"
            /\ (CountCalls(validator_calls', "sanitize_content") > 0
                  => ~validate(draft.title, draft.content))
            /\ (Len(validator_calls') = 3 /\ ~validate(draft'.title, draft'.content)
                  => publish_status' = "draft")
            /\ oracle_calls' = oracle_calls]_vars
    /\ [][PastValidation =>
            /\ validator_calls' = validator_calls
            /\ oracle_calls' = oracle_calls
            /\ draft' = draft
            /\ (~is_valid => publish_status' = "draft")]_vars

\* a run configured for publish sanitized a body that stayed invalid (998
\* characters after the substitution), validated twice, and its only request
\* was a draft
C31_Witness ==
    /\ pipeline = "orchestrator"
    /\ pc = "record"
    /\ configured_status = "publish"
    /\ validator_calls = <<"validate", "sanitize_content", "validate">>
    /\ ~is_valid
    /\ draft.content.len = 998
    /\ oracle_calls = 1
    /\ requests = <<"draft">>
    /\ result.success

\* the combinations of the topic space that have no ledger entry
UnusedCombinations(table) ==
    {d \in DrawSpace : ~is_topic_used(table, d.mbti, d.love_situation, d.card_name)}

\* C32: calculate_remaining_combinations, as run() calls it right after the
\* topic is allocated, returns the number of combinations of the topic space
\* that have no ledger entry, and the result is never negative
C32_RemainingCombinations ==
    (pipeline = "orchestrator" /\ pc = "generate" /\ oracle_calls = 0) =>
        /\ calculate_remaining_combinations(published_topics)
             = Cardinality(UnusedCombinations(published_topics))
        /\ calculate_remaining_combinations(published_topics) >= 0

\* C39: get_stats returns total_published equal to the number of ledger
\* entries and to the sum of the by_status counts, and a success_rate that
\* takes every entry whose status is not failed (publish, draft or future) as
\* a success; the rate is 0 for an empty ledger
C39_StatsCountEveryAcceptedPost ==
    LET stats == get_stats(published_topics)
        accepted == Cardinality({i \in 1..Len(published_topics) :
                                    published_topics[i].status # "failed"})
    IN  /\ stats.total_published = Len(published_topics)
        /\ stats.total_published = SumOver(DOMAIN stats.by_status, stats.by_status)
        /\ stats.success_rate = IF Len(published_topics) = 0 THEN 0
                                ELSE round2_percent(accepted, Len(published_topics))

\* C33: every title and body that SEOValidator.validate accepts is accepted
\* by ContentValidator.validate as well: the validators agree on the
\* forbidden-word, heading and length issues, and a body with all the
\* disclaimer keywords holds the disclaimer phrase
C33_SeoAcceptedImpliesAccepted ==
    "seo_is_valid" \in DOMAIN ret =>
        /\ ret.seo_is_valid => ret.is_valid
        /\ SelectSeq(ret.seo_issues, LAMBDA x : x # "disclaimer")
             = SelectSeq(ret.issues, LAMBDA x : x # "disclaimer")
        /\ seo_check_disclaimer(arg.content.text) => check_disclaimer(arg.content.text)

\* C34: run() leaves the publish_status of the ContentPublisher as it was
\* configured: between runs the instance holds the configured status, and a
\* run whose content is valid requests the configured status first, whatever
\* the earlier runs of the instance did
C34_DowngradeDoesNotCarryOver ==
    pipeline = "orchestrator" =>
        /\ (pc \in {"idle", "done"} => publish_status = configured_status)
        /\ (pc \in {"publish", "record"} /\ is_valid /\ Len(requests) > 0
              => requests[1] = configured_status)

\* a forbidden term occurs in the title
TermInTitle(title) == check_forbidden_words_in(title) # <<>>

\* a forbidden term occurs in title + " " + text across the joining space: in
\* the joined text, but neither in the title nor in the text
TermAcrossSpace(title, text) ==
    /\ check_forbidden_words_in(title \o <<" ">> \o text) # <<>>
    /\ check_forbidden_words_in(title) = <<>>
    /\ \A i \in 1..Len(forbidden_words) :
          Occurs(text_lower(forbidden_words[i]), text_lower(title \o <<" ">> \o text))
              => ~Occurs(text_lower(forbidden_words[i]), text_lower(text))

\* C35: sanitization never removes forbidden vocabulary of the title: when
\* the title holds a forbidden term, or title and body form one across the
\* joining space, the sanitized body is still invalid with that title, and
\* step 3 and the publisher of run() then request draft only, whatever the
\* status the instance held
C35_TitleTermsStayInvalid ==
    (ret # NoCall /\ (TermInTitle(arg.title) \/ TermAcrossSpace(arg.title, arg.content.text)))
    =>  /\ ~validate_body(arg.title, ret)
        /\ "forbidden words" \in {validate_body_issues(arg.title, ret)[i] :
                                    i \in 1..Len(validate_body_issues(arg.title, ret))}
        /\ \A s \in Statuses, t \in {"preferred", "fallback"} :
              RequestStatus(t, StatusAfterValidation(s, validate_body(arg.title, ret)))
                  = "draft"

\* the title ends in "must", the body is "happen" followed by "certain": the
\* pass replaced "certain", the body alone holds no term any more, and the
\* term across the joining space is still there
C35_Witness ==
    /\ ret # NoCall
    /\ arg.title = <<"m", "u", "s", "t">>
    /\ arg.content.text = <<"h", "a", "p", "p", "e", "n", "c", "e", "r", "t", "a", "i", "n">>
    /\ ret.text # arg.content.text
    /\ check_forbidden_words_in(ret.text) = <<>>
    /\ TermAcrossSpace(arg.title, ret.text)
    /\ ~validate_body(arg.title, ret)

\* C36: in main() of main.py with WORDPRESS_STATUS=draft, the status passed
\* to publish_post is draft and every post request carries status draft, at
\* any hour of the day
C36_ConfiguredDraftStaysDraft ==
    (pipeline = "main" /\ env_status = "draft") =>
        /\ (pc \in {"publish", "record"} => cli_status = "draft")
        /\ \A i \in 1..Len(requests) : requests[i] = "draft"

\* C37: when a command-line run recorded a successful publish, the post_id,
\* post_url and status of the ledger entry are the id, the link and the
\* status the CMS returned for the created post (publish_post of wordpress.py
\* returns the link under the key url), and post_url is not empty
C37_RowHoldsIdLinkStatus ==
    (pipeline \in {"main", "src_main"} /\ pc = "done" /\ returned = "0") =>
        LET row == published_topics[Len(published_topics)]
        IN  /\ row.post_id = result.post_id
            /\ row.post_url = result.url
            /\ row.post_url # NULL
            /\ row.status = result.status

\* the position of a subject in the order weekly_main iterates in
SubjectIndex(mbti) == CHOOSE k \in 1..Len(WeeklySubjects) : WeeklySubjects[k] = mbti

\* the entries of a week are in the order of the subjects, and a subject is
\* generated or requested only when every subject before it has its entry
WeeklyInSubjectOrder ==
    /\ \A i, j \in 1..Len(weekly_fortunes) :
          (i < j /\ weekly_fortunes[i].week_start = weekly_fortunes[j].week_start)
              => SubjectIndex(weekly_fortunes[i].mbti) < SubjectIndex(weekly_fortunes[j].mbti)
    /\ (weekly.pc \in {"generate", "publish", "save"} =>
          \A k \in 1..(weekly.idx - 1) :
              is_weekly_fortune_published(weekly_fortunes, WeeklySubjects[k],
                                          weekly.week_start))

\* the entry of a subject is written right after its publish: while the run
\* is at another subject, every subject it requested a post for and whose
\* request succeeded has its entry
WeeklySavedBeforeNext ==
    /\ (weekly.pc \in {"check", "generate", "publish"} =>
          \A m \in weekly.requested \ (IF weekly.pc = "publish" THEN {CurrentMbti} ELSE {}) :
              is_weekly_fortune_published(weekly_fortunes, m, weekly.week_start))
    /\ (weekly.pc = "save" =>
          /\ CurrentMbti \in weekly.requested
          /\ ~is_weekly_fortune_published(weekly_fortunes, CurrentMbti, weekly.week_start))

\* no step of a run, the aborting ones included, removes or changes an entry
WeeklyEntriesPersist ==
    /\ Len(weekly_fortunes') >= Len(weekly_fortunes)
    /\ SubSeq(weekly_fortunes', 1, Len(weekly_fortunes)) = weekly_fortunes

\* the week of the run has exactly one entry for each subject
WeekHasOneEntryEach ==
    \A k \in 1..Len(WeeklySubjects) :
        Cardinality({i \in 1..Len(weekly_fortunes) :
            /\ weekly_fortunes[i].mbti = WeeklySubjects[k]
            /\ weekly_fortunes[i].week_start = weekly.week_start}) = 1

\* C38 (as claimed): subjects are processed in MBTI_TYPES order, each entry
\* is written right after its own publish and before the next subject is
\* started, the entries written before an abort persist, and a run within
\* the week in which neither the oracle nor the CMS fails (it returns 0) ends
\* with exactly one entry for each subject
C38_WeekCompletedByAnyRun ==
    /\ [](WeeklyInSubjectOrder /\ WeeklySavedBeforeNext)
    /\ [][WeeklyEntriesPersist]_vars
    /\ []((weekly.pc = "done" /\ weekly.returned = "0") => WeekHasOneEntryEach)

\* C38 (amended): the same order, save-before-next and persistence; a run on
\* the Monday of the week in which neither the oracle nor the CMS fails ends
\* with exactly one entry for each subject, while a run on any other day
\* returns 0 without generating, requesting or writing anything
C38_WeekCompletedByMondayRun ==
    /\ [](WeeklyInSubjectOrder /\ WeeklySavedBeforeNext)
    /\ [][WeeklyEntriesPersist]_vars
    /\ []((weekly.pc = "done" /\ weekly.returned = "0" /\ weekday(weekly.today) = 0)
            => WeekHasOneEntryEach)
    /\ []((weekly.pc # "idle" /\ weekday(weekly.today) # 0)
            => /\ weekly.pc = "done"
               /\ weekly.returned = "0"
               /\ weekly.generated = {}
               /\ weekly.requested = {}
               /\ Len(weekly_fortunes) = weekly.len0
               /\ cms_posts = weekly.posts0)

\* a first Monday run wrote the entry of the first subject and aborted at the
\* second; a second run on the same Monday skipped the first subject,
\* generated and posted the second only, and returned 0 with the week complete
C38_Witness ==
    /\ weekly.pc = "done"
    /\ weekly.returned = "0"
    /\ weekly.runs = 2
    /\ weekly.today = 0
    /\ weekly.len0 = 1
    /\ weekly.generated = {WeeklySubjects[2]}
    /\ weekly.requested = {WeeklySubjects[2]}
    /\ Len(weekly_fortunes) = Len(WeeklySubjects)
    /\ WeekHasOneEntryEach

====
